---- MODULE Spec2Model ----
(***************************************************************************)
(* A model of the matching/ranking core of factoresourcing:                *)
(*   backend/ai_utils.py      text similarity, keyword extraction, thesis  *)
(*                            parsing, embedding, alignment analysis       *)
(*   backend/vector_store.py  the process-wide thesis state, add_thesis    *)
(*                            and find_relevant_articles                   *)
(*   backend/main.py          the request handlers that drive them on one  *)
(*                            asyncio event loop                           *)
(*                                                                         *)
(* Representation.                                                         *)
(*   - A text is a sequence of characters; a character is a one-character  *)
(*     string.  "\n" is the newline, SURR stands for a lone surrogate code *)
(*     point (a character str.encode() refuses).                           *)
(*   - A float is a fixed-point integer: the real x is the integer         *)
(*     floor(x * ONE).  ONE is divisible by 1..15 and by 100, so the       *)
(*     ratios and weights that occur on the modelled texts are exact or    *)
(*     rounded down by less than 1/ONE.                                    *)
(*   - An embedding is a record [dim, head]: a vector of dim components    *)
(*     whose first components are head and whose other components are the  *)
(*     same in every vector, so that the squared L2 distance of two        *)
(*     vectors of equal dim is the squared distance of their heads.        *)
(*   - print(...) is logging and is not modelled.                          *)
(***************************************************************************)
EXTENDS Integers, Sequences, FiniteSets, TLC

----------------------------------------------------------------------------
(* The state of the service: the module globals of vector_store.py and
   main.py, and the requests in flight on the event loop *)

VARIABLES
    api_key,            \* whether openai.api_key is set (ai_utils.py, at import)
    thesis_points,      \* vector_store.thesis_points
    thesis_keywords,    \* vector_store.thesis_keywords
    thesis_embeddings,  \* vector_store.thesis_embeddings: (point, vector) pairs
    index,              \* vector_store.index: the vectors, in insertion order
    articles,           \* main.articles
    thesis_uploads,     \* main.thesis_uploads: the ids of the entries
    pc,                 \* where each thesis request in flight stands
    cur,                \* the locals of each thesis request in flight
    response,           \* what the handler that just ran returns to its caller
    committed,          \* the thesis state the last completed add_thesis left
    last_call,          \* the last completed add_thesis: its text, the outcomes
                        \* of embed_text, whether the index held vectors before
    previous,           \* the last ranking delivered since the thesis state and
                        \* the stored articles last changed
    applied,            \* a library function called on its own: its arguments
                        \* and what it returned
    blog_searches,      \* main.blog_searches
    starred_blogs       \* main.starred_blogs

vars == <<api_key, thesis_points, thesis_keywords, thesis_embeddings, index,
          articles, thesis_uploads, pc, cur, response, committed, last_call,
          previous, applied, blog_searches, starred_blogs>>

thesis_vars == <<thesis_points, thesis_keywords, thesis_embeddings, index>>
request_vars == <<pc, cur>>
blog_vars == <<blog_searches, starred_blogs>>
service_vars == <<api_key, thesis_vars, articles, thesis_uploads, request_vars, response,
                  committed, last_call, previous, blog_vars>>

----------------------------------------------------------------------------
(* Fixed-point arithmetic *)

ONE == 100 * 360360

Min2(x, y) == IF x <= y THEN x ELSE y
Max2(x, y) == IF x >= y THEN x ELSE y

\* floor(ONE * n / d) for 0 <= n, 0 < d, without overflowing 32 bits
Frac(n, d) == (ONE \div d) * n + ((ONE % d) * n) \div d

\* x * (tenths / 10), x a fixed-point value in [0, ONE]
Weighted(x, tenths) == (x * tenths) \div 10

\* min(max(x, 0.0), 1.0)
Clamp01(x) == Min2(Max2(x, 0), ONE)

\* s[lo] + ... + s[hi]
RECURSIVE SumRange(_, _, _)
SumRange(s, lo, hi) ==
    IF lo > hi THEN 0
    ELSE IF lo = hi THEN s[lo]
    ELSE LET mid == (lo + hi) \div 2
         IN  SumRange(s, lo, mid) + SumRange(s, mid + 1, hi)

\* sum(s)
SumSeq(s) == SumRange(s, 1, Len(s))

SetMax(S) == CHOOSE x \in S : \A y \in S : y <= x
SetMin(S) == CHOOSE x \in S : \A y \in S : x <= y

Range(s) == {s[i] : i \in 1..Len(s)}

\* The sequence s itself, as an enumerated tuple (TLC would otherwise keep
\* [i \in 1..n |-> e] unevaluated and recompute e at every application).
AsTuple(s) == SubSeq(s, 1, Len(s))

----------------------------------------------------------------------------
(* Characters and the str methods the code uses *)

SURR == "\\ud800"

LowerLetters ==
    <<"a","b","c","d","e","f","g","h","i","j","k","l","m",
      "n","o","p","q","r","s","t","u","v","w","x","y","z">>
UpperLetters ==
    <<"A","B","C","D","E","F","G","H","I","J","K","L","M",
      "N","O","P","Q","R","S","T","U","V","W","X","Y","Z">>
Digits == {"0","1","2","3","4","5","6","7","8","9"}

\* str.isalpha() of one character
IsAlphaChar(c) == c \in Range(LowerLetters) \cup Range(UpperLetters)
\* the regular expression class \w
IsWordChar(c) == IsAlphaChar(c) \/ c \in Digits \/ c = "_"
\* the regular expression class \s, and the separators of str.split()
IsSpace(c) == c \in {" ", "\n", "\t", "\r"}

\* str.lower() of one character
LowerChar(c) ==
    IF c \in Range(UpperLetters)
    THEN LowerLetters[CHOOSE i \in 1..26 : UpperLetters[i] = c]
    ELSE c

\* str.lower()
Lower(text) == AsTuple([i \in 1..Len(text) |-> LowerChar(text[i])])

\* str.isalpha(): non-empty and every character alphabetic
IsAlpha(word) == word # <<>> /\ \A i \in 1..Len(word) : IsAlphaChar(word[i])

\* text[lo-1 : hi-1] in Python terms: the characters lo .. hi-1
Slice(text, lo, hi) == SubSeq(text, lo, Min2(hi - 1, Len(text)))

\* The elements of a finite set of integers in increasing order
SortedSeq(S) ==
    AsTuple([k \in 1..Cardinality(S) |->
                CHOOSE x \in S : Cardinality({y \in S : y < x}) = k - 1])

\* The positions at which a maximal run of characters whose mask is FALSE
\* starts, in increasing order
TokenStarts(sep) ==
    SortedSeq({i \in 1..Len(sep) : ~sep[i] /\ (i = 1 \/ sep[i - 1])})

\* The last position of the run that starts at i
TokenEnd(sep, i) == SetMin({j \in i..Len(sep) : j = Len(sep) \/ sep[j + 1]})

TokensAt(text, sep, starts) ==
    AsTuple([k \in 1..Len(starts) |->
                Slice(text, starts[k], TokenEnd(sep, starts[k]) + 1)])

\* The maximal runs of characters whose mask sep is FALSE, in order.
Tokens(text, sep) == TokensAt(text, sep, TokenStarts(sep))

\* str.split() with no argument
SplitWS(text) == Tokens(text, AsTuple([i \in 1..Len(text) |-> IsSpace(text[i])]))

\* re.findall(r'\b\w+\b', text)
FindallWords(text) == Tokens(text, AsTuple([i \in 1..Len(text) |-> ~IsWordChar(text[i])]))

\* The pieces of text between the positions cuts (in increasing order)
SplitAt(text, cuts) ==
    AsTuple([k \in 1..(Len(cuts) + 1) |->
                Slice(text,
                      (IF k = 1 THEN 0 ELSE cuts[k - 1]) + 1,
                      IF k > Len(cuts) THEN Len(text) + 1 ELSE cuts[k])])

\* str.split(c) for a one-character separator: empty pieces are kept
SplitOn(text, c) == SplitAt(text, SortedSeq({i \in 1..Len(text) : text[i] = c}))

\* The characters from the first to the last position of keep
Between(text, keep) ==
    IF keep = {} THEN <<>> ELSE Slice(text, SetMin(keep), SetMax(keep) + 1)

\* str.strip()
Strip(text) == Between(text, {i \in 1..Len(text) : ~IsSpace(text[i])})

\* sep.join(parts)
RECURSIVE JoinWith(_, _)
JoinWith(parts, sep) ==
    IF parts = <<>> THEN <<>>
    ELSE IF Len(parts) = 1 THEN parts[1]
    ELSE parts[1] \o sep \o JoinWith(Tail(parts), sep)

\* sub in text
Contains(sub, text) ==
    \E i \in 1..(Len(text) - Len(sub) + 1) : Slice(text, i, i + Len(sub)) = sub

\* The position of the first ">" after position i, 0 when there is none
CloseOf(text, i) ==
    IF \E j \in (i + 1)..Len(text) : text[j] = ">"
    THEN SetMin({j \in (i + 1)..Len(text) : text[j] = ">"})
    ELSE 0

\* The positions from pos on at which a tag <[^>]+> starts
TagOpens(text, pos) ==
    {i \in pos..Len(text) : text[i] = "<" /\ CloseOf(text, i) > i + 1}

RECURSIVE StripTagsFrom(_, _)
\* The text from position pos on without the tag that starts at open and
\* the tags after it
CutTag(text, pos, open) ==
    Slice(text, pos, open) \o StripTagsFrom(text, CloseOf(text, open) + 1)

\* re.sub(r'<[^>]+>', '', text): a tag runs from a "<" to the first ">" after
\* it, with at least one character in between.
StripTagsFrom(text, pos) ==
    IF TagOpens(text, pos) = {} THEN Slice(text, pos, Len(text) + 1)
    ELSE CutTag(text, pos, SetMin(TagOpens(text, pos)))

----------------------------------------------------------------------------
(* difflib.SequenceMatcher(None, a, b).ratio(), as calculate_text_similarity *)
(* uses it: no junk function, autojunk on.                                   *)

\* The "popular" elements of b: with len(b) >= 200, every element that occurs
\* more than len(b) // 100 + 1 times is left out of the b2j index.
Popular(b) ==
    IF Len(b) >= 200
    THEN {c \in Range(b) : Cardinality({j \in 1..Len(b) : b[j] = c}) > Len(b) \div 100 + 1}
    ELSE {}

\* Length of the run of equal, indexed (not popular) elements that starts at
\* a[i], b[j] and stays below ahi, bhi.
RECURSIVE RunLen(_, _, _, _, _, _, _)
RunLen(a, b, i, j, ahi, bhi, pop) ==
    IF i < ahi /\ j < bhi /\ a[i] = b[j] /\ b[j] \notin pop
    THEN 1 + RunLen(a, b, i + 1, j + 1, ahi, bhi, pop)
    ELSE 0

\* How far a block can be extended to the left / to the right over equal
\* elements (this is where popular elements are picked up again).
RECURSIVE ExtendBack(_, _, _, _, _, _)
ExtendBack(a, b, i, j, alo, blo) ==
    IF i > alo /\ j > blo /\ a[i - 1] = b[j - 1]
    THEN 1 + ExtendBack(a, b, i - 1, j - 1, alo, blo)
    ELSE 0

RECURSIVE ExtendFwd(_, _, _, _, _, _)
ExtendFwd(a, b, i, j, ahi, bhi) ==
    IF i < ahi /\ j < bhi /\ a[i] = b[j]
    THEN 1 + ExtendFwd(a, b, i + 1, j + 1, ahi, bhi)
    ELSE 0

\* The pairs <<i, j, k>>: a maximal run of k equal indexed elements starts at
\* a[i], b[j] within the windows
BlockStarts(a, b, alo, ahi, blo, bhi, pop) ==
    {<<p[1], p[2], RunLen(a, b, p[1], p[2], ahi, bhi, pop)>> :
        p \in {q \in (alo..(ahi - 1)) \X (blo..(bhi - 1)) :
                  /\ a[q[1]] = b[q[2]]
                  /\ b[q[2]] \notin pop
                  /\ (q[1] = alo \/ q[2] = blo \/ a[q[1] - 1] # b[q[2] - 1]
                        \/ b[q[2] - 1] \in pop)}}

\* The longest of the runs, the one starting earliest in a, then earliest in
\* b; <<alo, blo, 0>> when there is none
Earliest(runs, i) == SetMin({r[2] : r \in {q \in runs : q[1] = i}})
EarliestLongest(longest) ==
    <<SetMin({r[1] : r \in longest}), Earliest(longest, SetMin({r[1] : r \in longest}))>>
LongestOf(runs, kmax) ==
    EarliestLongest({r \in runs : r[3] = kmax}) \o <<kmax>>
BestRun(runs, alo, blo) ==
    IF runs = {} THEN <<alo, blo, 0>>
    ELSE LongestOf(runs, SetMax({r[3] : r \in runs}))

\* The block <<i, j, k>> extended by back elements to the left and fwd to the
\* right
Extended(m, back, fwd) == <<m[1] - back, m[2] - back, m[3] + back + fwd>>

ExtendBlock(a, b, alo, ahi, blo, bhi, m) ==
    Extended(m, ExtendBack(a, b, m[1], m[2], alo, blo),
                ExtendFwd(a, b, m[1] + m[3], m[2] + m[3], ahi, bhi))

\* find_longest_match(alo, ahi, blo, bhi) over a[alo..ahi-1], b[blo..bhi-1].
\* Result <<i, j, k>>.
find_longest_match(a, b, alo, ahi, blo, bhi, pop) ==
    ExtendBlock(a, b, alo, ahi, blo, bhi,
                BestRun(BlockStarts(a, b, alo, ahi, blo, bhi, pop), alo, blo))

RECURSIVE MatchedSize(_, _, _, _, _, _, _)
\* The size of the block m and of the matching blocks on either side of it
SizeAround(a, b, alo, ahi, blo, bhi, pop, m) ==
    IF m[3] = 0 THEN 0
    ELSE m[3] + MatchedSize(a, b, alo, m[1], blo, m[2], pop)
              + MatchedSize(a, b, m[1] + m[3], ahi, m[2] + m[3], bhi, pop)

\* The total size of get_matching_blocks() within the given windows.
MatchedSize(a, b, alo, ahi, blo, bhi, pop) ==
    IF alo >= ahi \/ blo >= bhi THEN 0
    ELSE SizeAround(a, b, alo, ahi, blo, bhi, pop,
                    find_longest_match(a, b, alo, ahi, blo, bhi, pop))

\* ratio(): 2.0 * matches / (len(a) + len(b)), 1.0 when both are empty
SequenceRatio(a, b) ==
    IF Len(a) + Len(b) = 0 THEN ONE
    ELSE Frac(2 * MatchedSize(a, b, 1, Len(a) + 1, 1, Len(b) + 1, Popular(b)),
              Len(a) + Len(b))

----------------------------------------------------------------------------
(* ai_utils.calculate_text_similarity *)

\* clean_text: strip tags, collapse whitespace, strip, lower
clean_text(text) == Lower(JoinWith(SplitWS(StripTagsFrom(text, 1)), <<" ">>))

\* len(A & B) / len(A | B), 0.0 when either set is empty
Jaccard(A, B) ==
    IF A # {} /\ B # {}
    THEN Frac(Cardinality(A \cap B), Cardinality(A \cup B))
    ELSE 0

\* The runs of 3 consecutive words, joined by a space
Trigrams(words) ==
    {JoinWith(SubSeq(words, i, i + 2), <<" ">>) : i \in 1..(Len(words) - 2)}

\* get_ngrams(text, 3)
get_ngrams(text) == Trigrams(SplitWS(text))

\* the keys of get_keyword_density(text)
get_keyword_density(text) == {w \in Range(FindallWords(text)) : Len(w) > 3}

sequence_similarity(c1, c2) == SequenceRatio(c1, c2)
jaccard_similarity(c1, c2) == Jaccard(Range(FindallWords(c1)), Range(FindallWords(c2)))
ngram_similarity(c1, c2) == Jaccard(get_ngrams(c1), get_ngrams(c2))
keyword_similarity(c1, c2) == Jaccard(get_keyword_density(c1), get_keyword_density(c2))

\* The four similarities weighted 0.3, 0.3, 0.3 and 0.2, the sum returned as
\* it is
OverweightUnclamped(c1, c2) ==
    (  3 * sequence_similarity(c1, c2)
     + 3 * jaccard_similarity(c1, c2)
     + 3 * ngram_similarity(c1, c2)
     + 2 * keyword_similarity(c1, c2)) \div 10

\* Lines 397-408: the weighted sum of the four similarities of the cleaned
\* texts, kept within [0, 1]
weighted_similarity(c1, c2) ==
    Clamp01((  3 * sequence_similarity(c1, c2)
             + 3 * jaccard_similarity(c1, c2)
             + 2 * ngram_similarity(c1, c2)
             + 2 * keyword_similarity(c1, c2)) \div 10)

\* Lines 335-410.  The try body never raises on two str arguments, so the
\* except branch (lines 412-421) is not reached from the modelled callers.
text_similarity(text1, text2) == weighted_similarity(clean_text(text1), clean_text(text2))

----------------------------------------------------------------------------
(* ai_utils.extract_keywords_from_text *)

stop_words ==
    {
      <<"t","h","e">>, <<"a">>, <<"a","n">>, <<"a","n","d">>,
      <<"o","r">>, <<"b","u","t">>, <<"i","n">>, <<"o","n">>,
      <<"a","t">>, <<"t","o">>, <<"f","o","r">>, <<"o","f">>,
      <<"w","i","t","h">>, <<"b","y">>, <<"i","s">>, <<"a","r","e">>,
      <<"w","a","s">>, <<"w","e","r","e">>, <<"b","e">>, <<"b","e","e","n">>,
      <<"h","a","v","e">>, <<"h","a","s">>, <<"h","a","d">>, <<"d","o">>,
      <<"d","o","e","s">>, <<"d","i","d">>, <<"w","i","l","l">>, <<"w","o","u","l","d">>,
      <<"c","o","u","l","d">>, <<"s","h","o","u","l","d">>, <<"m","a","y">>, <<"m","i","g","h","t">>,
      <<"c","a","n">>, <<"t","h","i","s">>, <<"t","h","a","t">>, <<"t","h","e","s","e">>,
      <<"t","h","o","s","e">>, <<"i">>, <<"y","o","u">>, <<"h","e">>,
      <<"s","h","e">>, <<"i","t">>, <<"w","e">>, <<"t","h","e","y">>,
      <<"m","e">>, <<"h","i","m">>, <<"h","e","r">>, <<"u","s">>,
      <<"t","h","e","m">>
    }

\* seq[:k] in Python: the first k elements, or all but the last -k when k < 0
PySliceTo(seq, k) ==
    IF k >= 0 THEN SubSeq(seq, 1, Min2(k, Len(seq)))
    ELSE SubSeq(seq, 1, Max2(Len(seq) + k, 0))

\* sorted(range(len(key)), key=lambda i: key[i], reverse=True): the indices of
\* key ordered by decreasing key; the sort is stable, so equal keys keep their
\* order.
StableSortDesc(key) ==
    LET n == Len(key)
        Before(j, i) == key[j] > key[i] \/ (key[j] = key[i] /\ j < i)
    IN  AsTuple([k \in 1..n |->
                    CHOOSE i \in 1..n : Cardinality({j \in 1..n : Before(j, i)}) = k - 1])

\* The words that pass the filter of line 435, in order of occurrence
KeywordCandidates(text) ==
    SelectSeq(SplitWS(Lower(text)),
              LAMBDA w : Len(w) > 3 /\ w \notin stop_words /\ IsAlpha(w))

\* The elements of seq at the positions at, in that order
Picked(seq, at) == AsTuple([k \in 1..Len(at) |-> seq[at[k]]])

\* The keys of word_freq in insertion order (first occurrence)
FirstOccurrences(words) ==
    Picked(words, SortedSeq({i \in 1..Len(words) : \A j \in 1..(i - 1) : words[j] # words[i]}))

\* word_freq[key] for each key
Frequencies(words, keys) ==
    AsTuple([k \in 1..Len(keys) |-> Cardinality({i \in 1..Len(words) : words[i] = keys[k]})])

\* sorted(word_freq.items(), key=lambda x: x[1], reverse=True): the keys by
\* decreasing frequency
ByFrequency(words, keys) == Picked(keys, StableSortDesc(Frequencies(words, keys)))

\* The keys of the frequency table of the filtered words, most frequent first
SortedWords(words) == ByFrequency(words, FirstOccurrences(words))

extract_keywords_from_text(text, max_keywords) ==
    PySliceTo(SortedWords(KeywordCandidates(text)), max_keywords)

----------------------------------------------------------------------------
(* ai_utils.parse_thesis *)

skip_patterns ==
    <<
      <<"a","b","s","t","r","a","c","t",":">>, <<"i","n","t","r","o","d","u","c","t","i","o","n",":">>,
      <<"c","o","n","c","l","u","s","i","o","n",":">>, <<"r","e","f","e","r","e","n","c","e","s",":">>,
      <<"b","i","b","l","i","o","g","r","a","p","h","y",":">>, <<"c","h","a","p","t","e","r">>,
      <<"s","e","c","t","i","o","n">>
    >>

\* [s.strip() for s in parts if len(s.strip()) > longer_than]
StrippedLonger(parts, longer_than) ==
    SelectSeq(AsTuple([i \in 1..Len(parts) |-> Strip(parts[i])]),
              LAMBDA part : Len(part) > longer_than)

\* The stripped lines longer than 10 characters (lines 273-277, 289-294)
MeaningfulLines(thesis_text) == StrippedLonger(SplitOn(thesis_text, "\n"), 10)

RECURSIVE Flatten(_)
Flatten(ss) == IF ss = <<>> THEN <<>> ELSE Head(ss) \o Flatten(Tail(ss))

\* Lines 301-314: with fewer than 3 points, a point longer than 200
\* characters is replaced by its sentences longer than 20 characters.
SplitLongPoints(points) ==
    IF Len(points) < 3
    THEN Flatten(AsTuple([i \in 1..Len(points) |->
            IF Len(points[i]) > 200
            THEN StrippedLonger(SplitOn(points[i], "."), 20)
            ELSE <<points[i]>>]))
    ELSE points

\* Lines 289-299: the lines that hold none of the skip patterns
WithoutHeadings(lines) ==
    SelectSeq(lines, LAMBDA line : ~\E k \in 1..Len(skip_patterns) :
                                        Contains(skip_patterns[k], Lower(line)))

\* The points of the thesis: the meaningful lines (lines 273-277), with an
\* API key filtered and split further (lines 286-314)
ThesisPoints(key, lines) ==
    IF ~key THEN lines ELSE SplitLongPoints(WithoutHeadings(lines))

\* The body of parse_thesis(thesis_text) -> [points, keywords].  key is the
\* truth value of openai.api_key.  Neither branch raises on a str, so the
\* except branch (lines 322-331) is not reachable.
parse_thesis_body(key, thesis_text) ==
    [points |-> ThesisPoints(key, MeaningfulLines(thesis_text)),
     keywords |-> extract_keywords_from_text(thesis_text, 8)]

----------------------------------------------------------------------------
(* The requests and pages the model draws its inputs from *)

\* The thesis of the specification's example scenario
TH_SPEC ==
    <<
      "S","o","l","a","r"," ","p","a","n","e","l"," ","e","f","f","i","c","i","e","n","c","y"," ","m","a","t","t","e","r","s",".","\n","B","a","t","t","e","r","y"," ","s","t","o","r","a","g","e"," ","i","s"," ","c","r","i","t","i","c","a","l",".","\n","G","r","i","d"," ","i","n","t","e","g","r","a","t","i","o","n"," ","e","n","a","b","l","e","s"," ","s","c","a","l","e",".">>

\* Three identical lines
TH_SAME ==
    <<
      "s","o","l","a","r"," ","b","a","t","t","e","r","y"," ","s","t","o","r","a","g","e"," ","a","d","v","a","n","c","e","s","\n","s","o","l","a","r"," ","b","a","t","t","e","r","y"," ","s","t","o","r","a","g","e"," ","a","d","v","a","n","c","e","s","\n","s","o","l","a","r"," ","b","a","t","t","e","r","y"," ","s","t","o","r","a","g","e"," ","a","d","v","a","n","c","e","s">>

\* One line of digits-and-letters words: a point, no keyword
TH_NOKW ==
    <<"a","1"," ","b","2"," ","c","3"," ","d","4"," ","e","5">>

\* One line that str.encode() refuses; the lone surrogate (as json.loads
\* yields for the escape \ud800) lies beyond the slices that are printed
TH_FAIL ==
    <<
      "s","o","l","a","r"," ","b","a","t","t","e","r","y"," ","s","t","o","r","a","g","e"," ","a","d","v","a","n","c","e","s"," ","s","o","l","a","r"," ","b","a","t","t","e","r","y"," ","s","t","o","r","a","g","e"," ","a","d","v","a","n","c","e","s"," ","s","o","l","a","r"," ","b","a","t","t","e","r","y"," ","s","t","o","r","a","g","e"," ","a","d","v","a","n","c","e","s"," ","s","o","l","a","r"," ","b","a","t","t","e","r","y"," ","s","t","o","r","a","g","e"," ","a","d","v","a","n","c","e","s"," ","s","o","l","a","r"," ","b","a","t","t","e","r","y"," ","s","t","o","r","a","g","e"," ","a","d","v","a","n","c","e","s"," ","s","o","l","a","r"," ","b","a","t","t","e","r","y"," ","s","t","o","r","a","g","e"," ","a","d","v","a","n","c","e","s"," ","s","o","l","a","r"," ","b","a","t","t","e","r","y"," ","s","t","o","r","a","g","e"," ","a","d","v","a","n","c","e","s"," ",SURR>>

\* Whitespace only
TH_BLANK ==
    <<" "," ">>

ThesisTexts == <<TH_SPEC, TH_SAME, TH_NOKW, TH_FAIL, TH_BLANK>>

SUMMARY_SOLAR ==
    <<
      "s","o","l","a","r"," ","b","a","t","t","e","r","y"," ","s","t","o","r","a","g","e"," ","a","d","v","a","n","c","e","s">>
\* populate_test_data, main.py line 1280
SUMMARY_TEST ==
    <<
      "T","h","i","s"," ","i","s"," ","a"," ","t","e","s","t"," ","a","r","t","i","c","l","e"," ","t","o"," ","h","e","l","p"," ","d","e","b","u","g"," ","t","h","e"," ","h","i","s","t","o","r","y"," ","f","u","n","c","t","i","o","n","a","l","i","t","y",".">>

\* An article text that names every renewable keyword and two of the tech ones
TEXT_DOMAINS ==
    <<"s","o","l","a","r"," ","w","i","n","d"," ","b","a","t","t","e","r","y"," ","e","n","e","r","g","y"," ","s","u","s","t","a","i","n","a","b","l","e"," ","g","r","e","e","n"," ","s","t","a","r","t","u","p"," ","f","u","n","d","i","n","g">>

\* Keyword lists of the pages
Words(text) == SplitWS(text)

\* A scraped and summarised page: what real_scrape_url and summarize_text
\* gave for the URL
Pages ==
    <<[url |-> "https://example.com/solar", summary |-> SUMMARY_SOLAR,
       keywords |-> Words(SUMMARY_SOLAR)]>>

\* An article dict with the keys find_relevant_articles reads, and the
\* 'is_starred' key as article.get("is_starred", False) reads it
Article(url, summary, keywords, embedding) ==
    [url |-> url, has_summary |-> TRUE, summary |-> summary,
     has_keywords |-> TRUE, keywords |-> keywords, embedding |-> embedding,
     has_full_content |-> FALSE, full_content |-> <<>>, is_starred |-> FALSE]

----------------------------------------------------------------------------
(* parse_thesis and calculate_text_similarity on the texts of the model *)

\* parse_thesis of every thesis text, without and with an API key, each
\* computed once
ParsedTheses ==
    AsTuple([k \in 1..2 |->
        AsTuple([t \in 1..Len(ThesisTexts) |-> parse_thesis_body(k = 2, ThesisTexts[t])])])

PositionIn(texts, text) == CHOOSE pos \in 1..Len(texts) : texts[pos] = text

\* parse_thesis(thesis_text), ai_utils.py lines 270-331
parse_thesis(key, thesis_text) ==
    ParsedTheses[IF key THEN 2 ELSE 1][PositionIn(ThesisTexts, thesis_text)]

\* ' '.join(thesis_points + thesis_keywords), ai_utils.py line 485
ThesisContent(points, keywords) ==
    JoinWith(points \o keywords, <<" ">>)

\* What analyze_thesis_alignment and find_relevant_articles compare of a
\* parsed thesis: its points and its joined content
ComparedTexts(parsed) ==
    AsTuple(parsed.points \o <<ThesisContent(parsed.points, parsed.keywords)>>)

\* The compared texts of every thesis text, parsed without and with an API key
ThesisSide ==
    Flatten(AsTuple([k \in 1..(2 * Len(ThesisTexts)) |->
        ComparedTexts(ParsedTheses[((k - 1) \div Len(ThesisTexts)) + 1]
                                  [((k - 1) % Len(ThesisTexts)) + 1])]))

\* The article texts: the summaries, '' for a missing one, and a text for
\* analyze_thesis_alignment called on its own
ArticleSide == <<SUMMARY_SOLAR, SUMMARY_TEST, <<>>, TEXT_DOMAINS>>

\* The similarity of an article text and a thesis text, the article text as
\* the first argument or as the second
SimilarityEitherWay(article_text, thesis_text, article_first) ==
    text_similarity(IF article_first THEN article_text ELSE thesis_text,
                    IF article_first THEN thesis_text ELSE article_text)

\* The similarities the scorer asks for, each computed once
SimilarityTable ==
    AsTuple([a \in 1..Len(ArticleSide) |->
        AsTuple([t \in 1..Len(ThesisSide) |->
            AsTuple([d \in 1..2 |->
                SimilarityEitherWay(ArticleSide[a], ThesisSide[t], d = 1)])])])

\* calculate_text_similarity(text1, text2), ai_utils.py lines 333-421, for an
\* article text and a thesis text in either order
calculate_text_similarity(text1, text2) ==
    IF text1 \in Range(ArticleSide) /\ text2 \in Range(ThesisSide)
    THEN SimilarityTable[PositionIn(ArticleSide, text1)][PositionIn(ThesisSide, text2)][1]
    ELSE SimilarityTable[PositionIn(ArticleSide, text2)][PositionIn(ThesisSide, text1)][2]

----------------------------------------------------------------------------
(* ai_utils.analyze_thesis_alignment *)

domain_keywords ==
    <<
    \* renewable
    <<
      <<"s","o","l","a","r">>, <<"w","i","n","d">>, <<"b","a","t","t","e","r","y">>,
      <<"e","n","e","r","g","y">>, <<"s","u","s","t","a","i","n","a","b","l","e">>, <<"g","r","e","e","n">>
    >>,
    \* tech
    <<
      <<"s","t","a","r","t","u","p">>, <<"f","u","n","d","i","n","g">>, <<"v","e","n","t","u","r","e">>,
      <<"c","a","p","i","t","a","l">>, <<"i","n","n","o","v","a","t","i","o","n">>, <<"t","e","c","h","n","o","l","o","g","y">>
    >>,
    \* business
    <<
      <<"m","a","r","k","e","t">>, <<"c","o","m","p","a","n","y">>, <<"i","n","v","e","s","t","m","e","n","t">>,
      <<"g","r","o","w","t","h">>, <<"r","e","v","e","n","u","e">>, <<"p","r","o","f","i","t">>
    >>
    >>

\* Lines 493-497: every domain adds (matches / len(keywords)) * 0.1
domain_score(article_lower) ==
    SumSeq([d \in 1..Len(domain_keywords) |->
        LET keywords == domain_keywords[d]
            domain_matches == Cardinality({k \in 1..Len(keywords) :
                                              Contains(keywords[k], article_lower)})
        IN  Weighted(Frac(domain_matches, Len(keywords)), 1)])

\* Lines 463-468: the share of the thesis keywords found in the article
keyword_score(article_lower, keywords) ==
    IF keywords # <<>>
    THEN Frac(Cardinality({k \in 1..Len(keywords) :
                              Contains(Lower(keywords[k]), article_lower)}),
              Len(keywords))
    ELSE 0

\* Line 476: the similarity of every thesis point with the article
point_similarities(article_text, points) ==
    AsTuple([i \in 1..Len(points) |-> calculate_text_similarity(points[i], article_text)])

\* Line 477: a point is matched when its similarity exceeds 0.3
matched_indices(point_scores) ==
    SelectSeq(AsTuple([i \in 1..Len(point_scores) |-> i]),
              LAMBDA i : point_scores[i] > Frac(3, 10))

\* Line 479: every matched point adds similarity * 0.3
matched_sum(point_scores, matched) ==
    SumSeq(AsTuple([k \in 1..Len(matched) |-> Weighted(point_scores[matched[k]], 3)]))

\* Lines 468, 479, 487, 497: the sum before it is clamped
alignment_sum(kscore, point_scores, content_similarity, dscore) ==
    Weighted(kscore, 4) + matched_sum(point_scores, matched_indices(point_scores))
        + Weighted(content_similarity, 3) + dscore

\* Lines 500-518: the result dict
alignment_result(points, keywords, kscore, point_scores, content_similarity, dscore, raw) ==
    [overall_score |-> Clamp01(raw),
     matched_points |-> Picked(points, matched_indices(point_scores)),
     alignment_reasons |-> IF keywords # <<>> THEN <<"Keyword match">> ELSE <<>>,
     raw_score |-> raw,
     detailed_scores |->
        [keyword_score |-> kscore,
         point_similarity |-> IF point_scores # <<>>
                              THEN SumSeq(point_scores) \div Len(point_scores) ELSE 0,
         content_similarity |-> content_similarity,
         domain_score |-> dscore]]

alignment_of(points, keywords, kscore, point_scores, content_similarity, dscore) ==
    alignment_result(points, keywords, kscore, point_scores, content_similarity, dscore,
                     alignment_sum(kscore, point_scores, content_similarity, dscore))

\* analyze_thesis_alignment(article_text, thesis_points, thesis_keywords);
\* points and keywords stand for the last two.  The body does not raise on
\* str arguments: the except branch (lines 520-529) is not reachable from
\* find_relevant_articles, which passes a str.
analyze_thesis_alignment(article_text, points, keywords) ==
    alignment_of(points, keywords,
                 keyword_score(Lower(article_text), keywords),
                 point_similarities(article_text, points),
                 calculate_text_similarity(ThesisContent(points, keywords), article_text),
                 domain_score(Lower(article_text)))

----------------------------------------------------------------------------
(* ai_utils.embed_text *)

DIM == 1536

\* A vector of dim components whose leading components are head
Vector(dim, head) == [dim |-> dim, head |-> head]

CodeTable == LowerLetters \o UpperLetters \o <<" ", ".", ":", "\n">>
CharCode(c) ==
    IF c \in Range(CodeTable) THEN CHOOSE i \in 1..Len(CodeTable) : CodeTable[i] = c
    ELSE Len(CodeTable) + 1

\* Stands for hashlib.md5(text.encode()).hexdigest(): a fixed function of the
\* text alone.  (The digest itself is not modelled; what the callers rely on
\* is that equal texts have equal digests.)
md5_digest(text) ==
    SumSeq(AsTuple([i \in 1..Len(text) |-> (i * CharCode(text[i])) % 16])) % 16

\* str.encode() raises UnicodeEncodeError on a lone surrogate
Encodable(text) == SURR \notin Range(text)

\* The vectors the embedding service, or random.random() after a failed call,
\* may produce: always 1536 components.  One vector stands for them.
RemoteVectors == {Vector(DIM, <<1, 2>>)}

\* A vector that also depends on how many calls were made before
SeededPerCall(digest) == Vector(DIM, <<digest % 4, Len(applied.calls)>>)

\* Lines 246-255: the vector built from the digest
HashVector(digest) == Vector(DIM, <<digest % 4, digest \div 4>>)

\* embed_text(text): the set of possible outcomes [raised, emb]; key is the
\* truth value of openai.api_key.
\*   no API key: the hash vector (lines 241-255), or the exception of
\*               text.encode() (line 244);
\*   API key:    whatever the service returns, or the random vector of the
\*               except branch (lines 257-266); it never raises.
embed_text(key, text) ==
    IF ~key
    THEN IF Encodable(text)
         THEN {[raised |-> FALSE, emb |-> HashVector(md5_digest(text))]}
         ELSE {[raised |-> TRUE, emb |-> Vector(0, <<0, 0>>)]}
    ELSE {[raised |-> FALSE, emb |-> v] : v \in RemoteVectors}


(* The hash embedding component by component: ai_utils.embed_text without an
   API key and FallbackMatcher.create_embedding *)

\* The 32 hexadecimal digits, as their values 0..15, that stand for the
\* digest of a text whose md5_digest is digest and whose length is length
HexDigits(digest, length) ==
    AsTuple([j \in 1..32 |-> (digest + 7 * j + length * j * j) % 16])

\* Stands for hashlib.md5(text.encode()).hexdigest(): a fixed function of the
\* text
hexdigest(text) == HexDigits(md5_digest(text), Len(text))

\* A window that advances three digits per dimension
WindowEveryThird(i, length) == (i * 3) % length

\* start = (i * 4) % len(hexdigest) (ai_utils.py line 249, fallback_matcher.py
\* line 226)
WindowStart(i, length) == (i * 4) % length

\* int(digits, 16)
HexValue(digits) ==
    SumSeq(AsTuple([j \in 1..Len(digits) |->
        digits[j] * IF Len(digits) - j = 0 THEN 1
                    ELSE IF Len(digits) - j = 1 THEN 16
                    ELSE IF Len(digits) - j = 2 THEN 256 ELSE 4096]))

\* One component (ai_utils.py lines 249-254): the window if it fits in the
\* digest, else 0.0.  value is in units of 1/100000.
HashComponent(hash_hex, start) ==
    IF start + 4 <= Len(hash_hex)
    THEN [fits |-> TRUE, value |-> HexValue(SubSeq(hash_hex, start + 1, start + 4))]
    ELSE [fits |-> FALSE, value |-> 0]

\* Lines 246-254: the 1536 components from the digest
HashComponents(hash_hex) ==
    AsTuple([d \in 1..DIM |-> HashComponent(hash_hex, WindowStart(d - 1, Len(hash_hex)))])

\* ai_utils.embed_text without an API key (lines 241-255): [raised, emb], emb
\* the 1536 components
hash_embed_text(text) ==
    IF Encodable(text)
    THEN [raised |-> FALSE, emb |-> HashComponents(hexdigest(text))]
    ELSE [raised |-> TRUE, emb |-> <<>>]

\* One component of FallbackMatcher.create_embedding (fallback_matcher.py
\* lines 226-231)
FallbackComponent(hash_hex, start) ==
    IF start + 4 <= Len(hash_hex)
    THEN [fits |-> TRUE, value |-> HexValue(SubSeq(hash_hex, start + 1, start + 4))]
    ELSE [fits |-> FALSE, value |-> 0]

\* Lines 224-231: the 1536 components from hash_hex
FallbackComponents(hash_hex) ==
    AsTuple([d \in 1..DIM |-> FallbackComponent(hash_hex, ((d - 1) * 4) % Len(hash_hex))])

\* FallbackMatcher.create_embedding(text) (fallback_matcher.py lines 216-233)
create_embedding(text) ==
    IF Encodable(text)
    THEN [raised |-> FALSE, emb |-> FallbackComponents(hexdigest(text))]
    ELSE [raised |-> TRUE, emb |-> <<>>]
----------------------------------------------------------------------------
(* faiss.IndexFlatL2(DIM): the index is the sequence of the vectors added *)

\* Squared L2 distance of two vectors of the same dimension
SqDist(u, v) ==
    SumSeq(AsTuple([i \in 1..Len(u.head) |-> (u.head[i] - v.head[i]) * (u.head[i] - v.head[i])]))

\* The distance faiss reports beside the label -1 (the largest float32)
FLT_MAX == -1

\* The distance of every stored vector from the query
Distances(idx, query) == AsTuple([j \in 1..Len(idx) |-> SqDist(idx[j], query)])

\* The positions of dist by increasing distance, equal distances in order of
\* insertion
Nearest(dist) == StableSortDesc(AsTuple([j \in 1..Len(dist) |-> 0 - dist[j]]))

\* The k nearest labels (0-based) and their distances, padded with label -1
SearchResult(dist, order, k) ==
    [raised |-> FALSE,
     D |-> AsTuple([j \in 1..k |-> IF j <= Len(dist) THEN dist[order[j]] ELSE FLT_MAX]),
     I |-> AsTuple([j \in 1..k |-> IF j <= Len(dist) THEN order[j] - 1 ELSE 0 - 1])]

SearchNearest(dist, k) == SearchResult(dist, Nearest(dist), k)

\* index.search(query, k): [raised, D, I].  A query of another dimension fails
\* the wrapper's assertion.  Otherwise the k nearest labels (0-based), nearest
\* first, padded with label -1 when the index holds fewer than k vectors.
IndexSearch(idx, query, k) ==
    IF query.dim # DIM THEN [raised |-> TRUE, D |-> <<>>, I |-> <<>>]
    ELSE SearchNearest(Distances(idx, query), k)

\* list[i] in Python, i a 0-based index, negative i counting from the end
PyIndex(list, i) == IF i >= 0 THEN list[i + 1] ELSE list[Len(list) + i + 1]

----------------------------------------------------------------------------
(* vector_store.find_relevant_articles *)

NO_THESIS_POINT == <<"N","o"," ","t","h","e","s","i","s"," ","u","p","l","o","a","d","e","d"," ","y","e","t">>

\* 1.0 / (1.0 + distance)
DistanceToSimilarity(distance) ==
    IF distance = FLT_MAX THEN 0 ELSE Frac(1, 1 + distance)

\* article.get('full_content', article.get('summary', ''))
ArticleText(article) ==
    IF article.has_full_content THEN article.full_content
    ELSE IF article.has_summary THEN article.summary
    ELSE <<>>

\* A score appended to match_scores, with the strategy that appended it
Score(strategy, value) == [strategy |-> strategy, value |-> value]

\* The entries of match_scores that a strategy appended
ScoresOf(match_scores, strategy) ==
    SelectSeq(match_scores, LAMBDA sc : sc.strategy = strategy)

\* sum(match_scores)
SumScores(match_scores) ==
    SumSeq(AsTuple([j \in 1..Len(match_scores) |-> match_scores[j].value]))

\* Line 91: the positions of the search result whose label is below
\* len(thesis_embeddings)
Neighbours(found, n) ==
    SelectSeq(AsTuple([j \in 1..Len(found.I) |-> j]), LAMBDA j : found.I[j] < n)

\* Line 92: the similarity of every such neighbour
NeighbourSimilarities(found, hits) ==
    AsTuple([h \in 1..Len(hits) |-> DistanceToSimilarity(found.D[hits[h]])])

\* Lines 90-96: what the loop over the neighbours leaves
VectorScores(found, hits, sims, embeddings) ==
    [raised |-> found.raised,
     \* line 93: every neighbour appends similarity_score * 0.4
     scores |-> AsTuple([h \in 1..Len(hits) |-> Score("vector", Weighted(sims[h], 4))]),
     points |-> AsTuple([h \in 1..Len(hits) |-> PyIndex(embeddings, found.I[hits[h]]).point]),
     any |-> hits # <<>>,
     best |-> SetMax({0} \cup Range(sims))]

VectorHits(found, hits, embeddings) ==
    VectorScores(found, hits, NeighbourSimilarities(found, hits), embeddings)

VectorFound(found, embeddings) ==
    VectorHits(found, Neighbours(found, Len(embeddings)), embeddings)

\* Strategy 1 (lines 86-102): [raised, scores, points, any, best]
VectorStrategy(article, st) ==
    VectorFound(IndexSearch(st.index, article.embedding, Min2(3, Len(st.thesis_embeddings))),
                st.thesis_embeddings)

\* Lines 106-109: the share of the thesis keywords among the article's
KeywordOverlap(article_keywords, thesis_keywords_set, used) ==
    [used |-> used,
     overlap |-> IF used THEN Cardinality(article_keywords \cap thesis_keywords_set) ELSE 0,
     score |-> IF used
               THEN Frac(Cardinality(article_keywords \cap thesis_keywords_set),
                         Max2(Cardinality(thesis_keywords_set), 1))
               ELSE 0]

\* Strategy 2 (lines 104-115): [used, overlap, score]
KeywordStrategy(article, st) ==
    KeywordOverlap({Lower(kw) : kw \in Range(article.keywords)},
                   {Lower(kw) : kw \in Range(st.thesis_keywords)},
                   st.thesis_keywords # <<>> /\ article.has_keywords /\ article.keywords # <<>>)

\* Strategy 3 (lines 117-135): the similarities with thesis_points[:3]; a
\* missing summary raises KeyError inside the try of every iteration.
TextStrategy(article, st) ==
    IF article.has_summary
    THEN AsTuple([j \in 1..Min2(3, Len(st.thesis_points)) |->
                     calculate_text_similarity(article.summary, st.thesis_points[j])])
    ELSE <<>>

\* A content score that remembers the articles of the last ranking: full
\* marks for an article ranked before
RememberedContent(article) ==
    IF previous.made /\ article \in Range(previous.input) THEN ONE
    ELSE IF Len(article.summary) >= 500 THEN ONE ELSE Frac(Len(article.summary), 500)

\* Strategy 4 (lines 137-143): min(len(summary) / 500.0, 1.0)
ContentStrategy(article) ==
    IF Len(article.summary) >= 500 THEN ONE ELSE Frac(Len(article.summary), 500)

\* Whether scoring the article raises out of find_relevant_articles:
\* article['summary'] (lines 62, 138, 190) and article['keywords'] (lines 64,
\* 192) are read outside every try.
ArticleRaises(article) == ~article.has_summary \/ ~article.has_keywords

\* Lines 81-184: match_scores in the order the strategies append to it
MatchScores(vec, kw, text_scores, content_score, aligned, alignment_analysis) ==
    (IF vec.raised THEN <<>> ELSE vec.scores)
    \o (IF kw.used THEN <<Score("keyword", Weighted(kw.score, 3))>> ELSE <<>>)
    \o AsTuple([j \in 1..Len(text_scores) |-> Score("text", Weighted(text_scores[j], 2))])
    \o <<Score("content", Weighted(content_score, 1))>>
    \o (IF aligned
        THEN <<Score("alignment", Weighted(alignment_analysis.overall_score, 3))>>
        ELSE <<>>)

\* The neighbours' points kept whatever the analyzer matched
NeighboursKept(vec, aligned, alignment_analysis) ==
    IF vec.raised THEN <<>> ELSE vec.points

\* Lines 94, 171-172
MatchedPoints(vec, aligned, alignment_analysis) ==
    IF aligned /\ alignment_analysis.matched_points # <<>>
    THEN alignment_analysis.matched_points
    ELSE IF vec.raised THEN <<>> ELSE vec.points

\* Lines 98-99, 111-112, 134-135, 141-142, 175-176
MatchReasons(vec, kw, text_scores, content_score, aligned, alignment_analysis) ==
    (IF ~vec.raised /\ vec.best > 0 THEN <<"Vector similarity">> ELSE <<>>)
    \o (IF kw.overlap > 0 THEN <<"Keyword overlap">> ELSE <<>>)
    \o (IF SetMax({0} \cup Range(text_scores)) > 0 THEN <<"Text similarity">> ELSE <<>>)
    \o (IF content_score > Frac(3, 10) THEN <<"Content quality">> ELSE <<>>)
    \o (IF aligned THEN alignment_analysis.alignment_reasons ELSE <<>>)

\* Lines 96, 102, 113-115, 132, 143, 168: the keys detailed_scores holds
DetailedScores(vec, kw, text_scores, content_score, aligned, alignment_analysis) ==
    (IF vec.raised THEN "vector_similarity" :> 0
     ELSE IF vec.any THEN "vector_similarity" :> vec.best
     ELSE <<>>)
    @@ ("keyword_overlap" :> kw.score)
    @@ ("text_similarity" :> SetMax({0} \cup Range(text_scores)))
    @@ ("content_quality" :> content_score)
    @@ (IF aligned THEN "thesis_alignment" :> alignment_analysis.overall_score ELSE <<>>)

\* Lines 184-203: the match object from what the strategies appended
MatchObject(article, match_scores, matched_points, match_reasons, detailed_scores) ==
    [url |-> article.url,
     summary |-> article.summary,
     keywords |-> article.keywords,
     matched_thesis_points |-> PySliceTo(matched_points, 3),
     relevance_score |-> SumScores(match_scores),
     match_reason |-> PySliceTo(match_reasons, 3),
     detailed_scores |-> detailed_scores,
     match_scores |-> match_scores]

Scored(article, vec, kw, text_scores, content_score, aligned, alignment_analysis) ==
    MatchObject(article,
        MatchScores(vec, kw, text_scores, content_score, aligned, alignment_analysis),
        MatchedPoints(vec, aligned, alignment_analysis),
        MatchReasons(vec, kw, text_scores, content_score, aligned, alignment_analysis),
        DetailedScores(vec, kw, text_scores, content_score, aligned, alignment_analysis))

\* The match object of one article when thesis embeddings exist (lines 78-205);
\* st is the thesis state of the module (see ThesisState)
ScoreArticle(article, st) ==
    Scored(article,
           VectorStrategy(article, st),
           KeywordStrategy(article, st),
           TextStrategy(article, st),
           ContentStrategy(article),
           st.thesis_points # <<>> /\ st.thesis_keywords # <<>>,
           analyze_thesis_alignment(ArticleText(article), st.thesis_points, st.thesis_keywords))

\* The match object of one article when there are no thesis embeddings
\* (lines 58-75)
DefaultMatch(article) ==
    [url |-> article.url,
     summary |-> article.summary,
     keywords |-> article.keywords,
     matched_thesis_points |-> <<NO_THESIS_POINT>>,
     relevance_score |-> ONE,
     match_reason |-> <<"No thesis available for comparison">>,
     detailed_scores |->
        ("vector_similarity" :> 0) @@ ("keyword_overlap" :> 0)
        @@ ("semantic_similarity" :> 0) @@ ("content_quality" :> 0),
     match_scores |-> <<>>]

\* The matches in the order of the input
Unsorted(matches) == matches

\* sorted(matches, key=lambda x: x["relevance_score"])[::-1]: descending, the
\* articles of equal score in the reverse of their input order
SortedThenReversed(matches) ==
    Picked(matches,
           StableSortDesc(AsTuple([j \in 1..Len(matches) |->
               matches[j].relevance_score * (Len(matches) + 1) + j])))

\* sorted(matches, key=lambda x: x["relevance_score"], reverse=True)
SortMatches(matches) ==
    Picked(matches,
           StableSortDesc(AsTuple([j \in 1..Len(matches) |-> matches[j].relevance_score])))

\* find_relevant_articles(articles) reading the thesis state st: [raised,
\* matches].  raised: an exception leaves the function and nothing is
\* returned.
find_relevant_articles(list, st) ==
    IF \E j \in 1..Len(list) : ArticleRaises(list[j])
    THEN [raised |-> TRUE, matches |-> <<>>]
    ELSE [raised |-> FALSE,
          matches |->
            SortMatches(AsTuple([j \in 1..Len(list) |->
                IF Len(st.thesis_embeddings) = 0
                THEN DefaultMatch(list[j])
                ELSE ScoreArticle(list[j], st)]))]

----------------------------------------------------------------------------
(* vector_store.add_thesis *)

\* The module state add_thesis writes
ThesisState(points, keywords, embeddings, idx) ==
    [thesis_points |-> points, thesis_keywords |-> keywords,
     thesis_embeddings |-> embeddings, index |-> idx]

\* The state after import (lines 6-9): nothing stored
InitialThesis == ThesisState(<<>>, <<>>, <<>>, <<>>)

\* An index that reset() leaves as it is
IndexKept(idx) == idx

\* index.reset() (line 26)
IndexReset(idx) == <<>>

\* An index that puts the newest vector first
IndexPrepend(idx, emb) == <<emb>> \o idx

\* index.add (line 35)
IndexAdd(idx, emb) == Append(idx, emb)

\* Lines 18-20
StoreParsed(st, parsed) ==
    [st EXCEPT !.thesis_points = parsed.points, !.thesis_keywords = parsed.keywords]

\* Lines 25-26
ClearEmbeddings(st) ==
    [st EXCEPT !.thesis_embeddings = <<>>, !.index = IndexReset(st.index)]

\* One iteration of the loop of lines 29-38 with the outcome of embed_text:
\* a point whose embedding raised is reported and skipped
EmbedPoint(st, point, outcome) ==
    IF Strip(point) # <<>> /\ ~outcome.raised
    THEN [st EXCEPT !.thesis_embeddings = Append(@, [point |-> point, emb |-> outcome.emb]),
                    !.index = IndexAdd(@, outcome.emb)]
    ELSE st

RECURSIVE EmbedPoints(_, _, _, _)
EmbedPoints(st, points, outcomes, i) ==
    IF i > Len(points) THEN st
    ELSE EmbedPoints(EmbedPoint(st, points[i], outcomes[i]), points, outcomes, i + 1)

\* Lines 18-38 once the text is parsed
AddParsed(st, parsed, outcomes) ==
    EmbedPoints(ClearEmbeddings(StoreParsed(st, parsed)), parsed.points, outcomes, 1)

\* add_thesis(thesis_text) from state st, embed_text answering outcomes[i]
\* for the i-th point
add_thesis(st, key, thesis_text, outcomes) ==
    AddParsed(st, parse_thesis(key, thesis_text), outcomes)

----------------------------------------------------------------------------
(* The service: module state of vector_store.py and main.py, and the requests
   in flight on the event loop *)

\* At most this many articles are stored
MaxArticles == 2
\* At most this many entries of thesis_uploads are recorded
MaxUploads == 2

\* The thesis state as find_relevant_articles reads it
CurrentThesis == ThesisState(thesis_points, thesis_keywords, thesis_embeddings, index)

\* The thesis requests that may be in flight: each records one entry of
\* thesis_uploads
Tasks == 1..MaxUploads

NoLocals == [prefix |-> "", text |-> <<>>, points |-> <<>>, i |-> 0,
             outcomes |-> <<>>, replaced |-> FALSE]
NoResponse == [kind |-> "none", input |-> <<>>, matches |-> <<>>, consistent |-> TRUE,
               detail |-> ""]

\* The answer to a request whose handler raised HTTPException: the status and
\* the detail of the exception that left the handler
ErrorResponse(kind, detail) == [NoResponse EXCEPT !.kind = kind, !.detail = detail]

\* add_thesis_text on an empty text: the HTTPException(400) of line 665 is
\* raised inside the try and caught by the except Exception of line 698,
\* which raises HTTPException(500) with str(e) in its detail
EmptyThesisText ==
    ErrorResponse("error_500", "Error processing thesis text: 400: Thesis text cannot be empty")
NoCall == [made |-> FALSE, text |-> <<>>, outcomes |-> <<>>, replaced |-> FALSE]
NoPrevious == [made |-> FALSE, kind |-> "none", input |-> <<>>, matches |-> <<>>]
NotApplied == [fn |-> "none", args |-> <<>>, calls |-> <<>>]

\* The texts an uploaded file parses to (parse_file decodes UTF-8)
UploadTexts == {ThesisTexts[n] : n \in {m \in 1..Len(ThesisTexts) : Encodable(ThesisTexts[m])}}
\* The texts a JSON body carries
RequestTexts == Range(ThesisTexts)

\* A handler that gives up the event loop at every statement
AnyLabel(label) == TRUE

\* The one place where a thesis handler gives up the event loop:
\* await file.read() (main.py line 459).  add_thesis, find_relevant_articles
\* and the rest of the handlers run without awaiting.
Suspended(label) == label = "await_read"

\* The event loop is free for task: every other request is done or suspended
OthersWait(task) == \A other \in Tasks \ {task} : pc[other] = "idle" \/ Suspended(pc[other])

\* Another request may run: no request holds the loop
LoopFree ==
    /\ response.kind = "none"
    /\ OthersWait(0)

\* The thesis request task stands at label and may go on
Holding(task, label) ==
    /\ response.kind = "none"
    /\ pc[task] = label
    /\ OthersWait(task)

\* The labels of a request inside add_thesis
InAddThesis == {"add_thesis", "parsed", "embedding"}

\* A call of add_thesis has begun and not returned
ReplacementInProgress == \E task \in Tasks : pc[task] \in InAddThesis

\* thesis_uploads entries recorded or about to be recorded
UploadsClaimed == Len(thesis_uploads) + Cardinality({task \in Tasks : pc[task] # "idle"})

\* The first task that is not in flight
FreeTask == CHOOSE task \in Tasks : pc[task] = "idle" /\ \A other \in 1..(task - 1) : pc[other] # "idle"

\* f"{prefix}{len(thesis_uploads) + 1}"
UploadId(prefix) == [prefix |-> prefix, n |-> Len(thesis_uploads) + 1]

\* The ranking a handler or caller obtains for the list on the state as it is
Ranking(list) ==
    LET found == find_relevant_articles(list, CurrentThesis)
    IN  [kind |-> IF found.raised THEN "raised" ELSE "matches",
         input |-> list,
         matches |-> found.matches,
         consistent |-> ~ReplacementInProgress /\ CurrentThesis = committed,
         detail |-> ""]

\* What embed_text may answer for each point, in order
OutcomeSeqs(key, points) ==
    LET all == UNION {embed_text(key, points[i]) : i \in 1..Len(points)}
    IN  {AsTuple(f) : f \in {g \in [1..Len(points) -> all] :
                                \A i \in 1..Len(points) : g[i] \in embed_text(key, points[i])}}

InitService ==
    /\ api_key \in BOOLEAN
    /\ thesis_points = <<>>
    /\ thesis_keywords = <<>>
    /\ thesis_embeddings = <<>>
    /\ index = <<>>
    /\ articles = <<>>
    /\ thesis_uploads = <<>>
    /\ pc = [task \in Tasks |-> "idle"]
    /\ cur = [task \in Tasks |-> NoLocals]
    /\ response = NoResponse
    /\ committed = InitialThesis
    /\ last_call = NoCall
    /\ previous = NoPrevious
    /\ blog_searches = <<>>
    /\ starred_blogs = <<>>

Init ==
    /\ InitService
    /\ applied = NotApplied

\* upload_thesis up to await file.read() (main.py lines 453-459)
UploadThesisStart ==
    /\ LoopFree
    /\ UploadsClaimed < MaxUploads
    /\ pc' = [pc EXCEPT ![FreeTask] = "await_read"]
    /\ UNCHANGED <<api_key, thesis_vars, articles, thesis_uploads, cur, response,
                   committed, last_call, previous, applied, blog_vars>>

\* What a thesis handler leaves once add_thesis has left the thesis state st:
\* the entry of thesis_uploads and the ranking of the stored articles
\* (upload_thesis lines 477-501, add_thesis_text lines 674-696)
ThesisHandled(prefix, text, outcomes, st) ==
    /\ thesis_points' = st.thesis_points
    /\ thesis_keywords' = st.thesis_keywords
    /\ thesis_embeddings' = st.thesis_embeddings
    /\ index' = st.index
    /\ committed' = st
    /\ last_call' = [made |-> TRUE, text |-> text, outcomes |-> outcomes,
                     replaced |-> index # <<>>]
    /\ thesis_uploads' = Append(thesis_uploads, UploadId(prefix))
    /\ response' = [kind |-> "matches", input |-> articles,
                    matches |-> find_relevant_articles(articles, st).matches,
                    consistent |-> TRUE, detail |-> ""]
    /\ previous' = NoPrevious

\* A thesis handler from its call of add_thesis to its return
\* (upload_thesis lines 475-501, add_thesis_text lines 672-696)
SubmitThesis(prefix, text) ==
    \E outcomes \in OutcomeSeqs(api_key, parse_thesis(api_key, text).points) :
        ThesisHandled(prefix, text, outcomes,
                      add_thesis(CurrentThesis, api_key, text, outcomes))

\* upload_thesis from the resumption after await file.read() to its return
\* (lines 459-501)
UploadThesisFinish ==
    /\ LoopFree
    /\ \E task \in Tasks :
          /\ pc[task] = "await_read"
          /\ pc' = [pc EXCEPT ![task] = "idle"]
    /\ \E text \in UploadTexts : SubmitThesis("thesis_", text)
    /\ UNCHANGED <<api_key, articles, cur, applied, blog_vars>>

\* add_thesis_text (lines 659-700): the text is stripped; for an empty one the
\* HTTPException(400) raised at line 665 is caught at line 698 and answered as
\* a 500
AddThesisText ==
    /\ LoopFree
    /\ UploadsClaimed < MaxUploads
    /\ UNCHANGED <<api_key, articles, request_vars, applied, blog_vars>>
    /\ \E text \in RequestTexts :
          IF Strip(text) = <<>>
          THEN /\ response' = EmptyThesisText
               /\ UNCHANGED <<thesis_vars, thesis_uploads, committed, last_call, previous>>
          ELSE SubmitThesis("thesis_text_", Strip(text))

\* get_matches (main.py lines 702-722)
GetMatches ==
    /\ LoopFree
    /\ UNCHANGED <<api_key, thesis_vars, articles, thesis_uploads, request_vars,
                   committed, last_call, previous, applied, blog_vars>>
    /\ response' = Ranking(articles)

\* add_source (main.py lines 413-451): the page is scraped and summarised, the
\* summary embedded, the article appended
AddSource ==
    /\ LoopFree
    /\ Len(articles) < MaxArticles
    /\ \E p \in 1..Len(Pages) : \E outcome \in embed_text(api_key, Pages[p].summary) :
          IF outcome.raised
          THEN /\ response' = ErrorResponse("error_500", "Error processing source")
               /\ UNCHANGED <<articles, previous>>
          ELSE /\ articles' = Append(articles,
                       Article(Pages[p].url, Pages[p].summary, Pages[p].keywords, outcome.emb))
               /\ previous' = NoPrevious
               /\ UNCHANGED response
    /\ UNCHANGED <<api_key, thesis_vars, thesis_uploads, request_vars, committed, last_call,
                   applied, blog_vars>>

\* The test article of populate_test_data (main.py lines 1277-1289); its
\* embedding has three components
TestArticle ==
    Article("https://example.com/test-article", SUMMARY_TEST,
            <<<<"t", "e", "s", "t">>, <<"d", "e", "b", "u", "g">>,
              <<"h", "i", "s", "t", "o", "r", "y">>,
              <<"c", "o", "n", "t", "e", "n", "t">>>>,
            Vector(3, <<1, 2>>))

\* populate_test_data (main.py lines 1271-1309)
PopulateTestData ==
    /\ LoopFree
    /\ Len(articles) < MaxArticles
    /\ UploadsClaimed < MaxUploads
    /\ articles' = Append(articles, TestArticle)
    /\ thesis_uploads' = Append(thesis_uploads, [prefix |-> "thesis_test_", n |-> 1])
    /\ previous' = NoPrevious
    /\ UNCHANGED <<api_key, thesis_vars, request_vars, response, committed, last_call,
                   applied, blog_vars>>

\* Article dicts a caller of find_relevant_articles may pass that the
\* handlers of main.py never build: one without 'summary', one without
\* 'keywords'
WithoutSummary ==
    [Article("https://example.com/a", <<>>, Words(SUMMARY_SOLAR), Vector(DIM, <<0, 0>>))
        EXCEPT !.has_summary = FALSE]
WithoutKeywords ==
    [Article("https://example.com/b", SUMMARY_TEST, <<>>, Vector(DIM, <<0, 0>>))
        EXCEPT !.has_keywords = FALSE]
SolarArticle ==
    Article(Pages[1].url, Pages[1].summary, Pages[1].keywords, Vector(DIM, <<1, 2>>))

CallerLists == {<<SolarArticle, WithoutSummary>>, <<WithoutKeywords, SolarArticle>>}

\* find_relevant_articles called with a list of the caller's
CallFindRelevantArticles ==
    /\ LoopFree
    /\ \E list \in CallerLists : response' = Ranking(list)
    /\ UNCHANGED <<api_key, thesis_vars, articles, thesis_uploads, request_vars,
                   committed, last_call, previous, applied, blog_vars>>

\* The ranking the caller has received last: an answer that carries no
\* ranking leaves it as it was
Delivered(answer) ==
    IF answer.kind \in {"matches", "raised"}
    THEN [made |-> TRUE, kind |-> answer.kind, input |-> answer.input,
          matches |-> answer.matches]
    ELSE previous

\* The response leaves the server
Deliver ==
    /\ response.kind # "none"
    /\ response' = NoResponse
    /\ previous' = Delivered(response)
    /\ UNCHANGED <<api_key, thesis_vars, articles, thesis_uploads, request_vars,
                   committed, last_call, applied, blog_vars>>

Next ==
    \/ UploadThesisStart
    \/ UploadThesisFinish
    \/ AddThesisText
    \/ GetMatches
    \/ AddSource
    \/ PopulateTestData
    \/ CallFindRelevantArticles
    \/ Deliver

Spec == Init /\ [][Next]_vars

----------------------------------------------------------------------------
(* The thesis handlers statement by statement: which statements of one
   request may come between the statements of another *)

\* The locals of a thesis request that is about to call add_thesis
Locals(prefix, text) == [NoLocals EXCEPT !.prefix = prefix, !.text = text]

\* upload_thesis resumes after await file.read() and runs up to its call of
\* add_thesis (main.py lines 459-475)
UploadThesisResume(task) ==
    /\ Holding(task, "await_read")
    /\ \E text \in UploadTexts :
          cur' = [cur EXCEPT ![task] = Locals("thesis_", text)]
    /\ pc' = [pc EXCEPT ![task] = "add_thesis"]
    /\ UNCHANGED <<api_key, thesis_vars, articles, thesis_uploads, response,
                   committed, last_call, previous, applied, blog_vars>>

\* add_thesis_text up to its call of add_thesis (main.py lines 659-672); an
\* empty text is answered at once (lines 664-665, 698-700)
AddThesisTextEnter ==
    /\ LoopFree
    /\ UploadsClaimed < MaxUploads
    /\ \E text \in RequestTexts :
          IF Strip(text) = <<>>
          THEN /\ response' = EmptyThesisText
               /\ UNCHANGED request_vars
          ELSE /\ cur' = [cur EXCEPT ![FreeTask] = Locals("thesis_text_", Strip(text))]
               /\ pc' = [pc EXCEPT ![FreeTask] = "add_thesis"]
               /\ UNCHANGED response
    /\ UNCHANGED <<api_key, thesis_vars, articles, thesis_uploads, committed, last_call,
                   previous, applied, blog_vars>>

\* add_thesis lines 18-20: the points and keywords are replaced
AddThesisParse(task) ==
    /\ Holding(task, "add_thesis")
    /\ thesis_points' = parse_thesis(api_key, cur[task].text).points
    /\ thesis_keywords' = parse_thesis(api_key, cur[task].text).keywords
    /\ cur' = [cur EXCEPT ![task].points = parse_thesis(api_key, cur[task].text).points,
                          ![task].replaced = index # <<>>]
    /\ pc' = [pc EXCEPT ![task] = "parsed"]
    /\ previous' = NoPrevious
    /\ UNCHANGED <<api_key, thesis_embeddings, index, articles, thesis_uploads, response,
                   committed, last_call, applied, blog_vars>>

\* add_thesis lines 25-26: the embeddings and the index are emptied
AddThesisClear(task) ==
    /\ Holding(task, "parsed")
    /\ thesis_embeddings' = ClearEmbeddings(CurrentThesis).thesis_embeddings
    /\ index' = ClearEmbeddings(CurrentThesis).index
    /\ cur' = [cur EXCEPT ![task].i = 1]
    /\ pc' = [pc EXCEPT ![task] = "embedding"]
    /\ previous' = NoPrevious
    /\ UNCHANGED <<api_key, thesis_points, thesis_keywords, articles, thesis_uploads,
                   response, committed, last_call, applied, blog_vars>>

\* What one iteration of the loop leaves (add_thesis lines 29-38)
PointEmbedded(task, outcome, st) ==
    /\ thesis_embeddings' = st.thesis_embeddings
    /\ index' = st.index
    /\ cur' = [cur EXCEPT ![task].i = @ + 1, ![task].outcomes = Append(@, outcome)]

\* add_thesis lines 29-38: one iteration of the loop over the points
AddThesisPoint(task) ==
    /\ Holding(task, "embedding")
    /\ cur[task].i <= Len(cur[task].points)
    /\ \E outcome \in embed_text(api_key, cur[task].points[cur[task].i]) :
          PointEmbedded(task, outcome,
                        EmbedPoint(CurrentThesis, cur[task].points[cur[task].i], outcome))
    /\ previous' = NoPrevious
    /\ UNCHANGED <<api_key, thesis_points, thesis_keywords, articles, thesis_uploads, pc,
                   response, committed, last_call, applied, blog_vars>>

\* add_thesis returns (lines 40-46)
AddThesisReturn(task) ==
    /\ Holding(task, "embedding")
    /\ cur[task].i > Len(cur[task].points)
    /\ committed' = CurrentThesis
    /\ last_call' = [made |-> TRUE, text |-> cur[task].text,
                     outcomes |-> cur[task].outcomes, replaced |-> cur[task].replaced]
    /\ pc' = [pc EXCEPT ![task] = "track"]
    /\ UNCHANGED <<api_key, thesis_vars, articles, thesis_uploads, cur, response,
                   previous, applied, blog_vars>>

\* The rest of the handler: the entry of thesis_uploads and the ranking of
\* the stored articles (upload_thesis lines 477-501, add_thesis_text lines
\* 674-696)
ThesisHandlerReturn(task) ==
    /\ Holding(task, "track")
    /\ thesis_uploads' = Append(thesis_uploads, UploadId(cur[task].prefix))
    /\ response' = [Ranking(articles) EXCEPT !.kind = "matches"]
    /\ pc' = [pc EXCEPT ![task] = "idle"]
    /\ cur' = [cur EXCEPT ![task] = NoLocals]
    /\ UNCHANGED <<api_key, thesis_vars, articles, committed, last_call, previous,
                   applied, blog_vars>>

NextSteps ==
    \/ UploadThesisStart
    \/ \E task \in Tasks : UploadThesisResume(task)
    \/ AddThesisTextEnter
    \/ \E task \in Tasks : AddThesisParse(task)
    \/ \E task \in Tasks : AddThesisClear(task)
    \/ \E task \in Tasks : AddThesisPoint(task)
    \/ \E task \in Tasks : AddThesisReturn(task)
    \/ \E task \in Tasks : ThesisHandlerReturn(task)
    \/ GetMatches
    \/ AddSource
    \/ Deliver

SpecSteps == Init /\ [][NextSteps]_vars

----------------------------------------------------------------------------
(* The library functions of ai_utils.py called on their own, outside a
   request: the arguments are fixed when the behaviour starts, the function
   is called on them up to MaxCalls times *)

\* At most this many calls on the same arguments
MaxCalls == 2

TEXT_WORD == <<"s","o","l","a","r">>
TEXT_TWO_SHORT == <<"a"," ","b">>
TEXT_TIDE == <<"t","i","d","e">>
TEXT_DIET == <<"d","i","e","t">>
TEXT_FOX == <<"t","h","e"," ","q","u","i","c","k"," ","b","r","o","w","n"," ","f","o","x">>
TEXT_KEYWORDS ==
    <<"G","r","i","d"," ","s","o","l","a","r"," ","w","i","n","d"," ","S","o","l","a","r"," ","w","i","n","d"," ","p","o","w","e","r",".">>
TEXT_SPACE == <<" ">>

\* A thesis of a heading line and a line of content
TH_HEADINGS ==
    <<"I","n","t","r","o","d","u","c","t","i","o","n",":"," ","s","o","l","a","r"," ","e","n","e","r","g","y","\n","S","o","l","a","r"," ","p","a","n","e","l"," ","e","f","f","i","c","i","e","n","c","y"," ","m","a","t","t","e","r","s",".">>
TEXT_SURROGATE == <<SURR>>

\* The texts calculate_text_similarity is called on
LibraryTexts ==
    {TEXT_WORD, TEXT_TWO_SHORT, TEXT_TIDE, TEXT_DIET, TEXT_FOX, TEXT_SPACE, <<>>}

\* The texts embed_text is called on
EmbeddedTexts == {<<>>, TEXT_WORD, TEXT_FOX, TEXT_SURROGATE}

\* The texts extract_keywords_from_text is called on, and the values of
\* max_keywords
KeywordTexts == {TEXT_KEYWORDS, TEXT_FOX, SUMMARY_SOLAR, <<>>}
KeywordLimits == (0 - 2)..3

\* The thesis texts parse_thesis is called on
ParsedTexts == {TH_SPEC, TH_HEADINGS, TH_NOKW}

\* The arguments of a call: two texts for calculate_text_similarity; an
\* article text and a thesis text (parsed to thesis_points and
\* thesis_keywords) for analyze_thesis_alignment; a text for embed_text
LibraryInputs ==
    {[fn |-> "calculate_text_similarity", args |-> <<text1, text2>>, calls |-> <<>>] :
        text1 \in LibraryTexts, text2 \in LibraryTexts}
    \cup {[fn |-> "analyze_thesis_alignment", args |-> <<article_text, thesis_text>>,
           calls |-> <<>>] :
        article_text \in Range(ArticleSide), thesis_text \in Range(ThesisTexts)}
    \cup {[fn |-> "parse_thesis", args |-> <<thesis_text>>, calls |-> <<>>] :
        thesis_text \in ParsedTexts}
    \cup {[fn |-> "create_embedding", args |-> <<text>>, calls |-> <<>>] :
        text \in EmbeddedTexts}
    \cup {[fn |-> "embed_text", args |-> <<text>>, calls |-> <<>>] : text \in EmbeddedTexts}
    \cup {[fn |-> "extract_keywords_from_text", args |-> <<text, max_keywords>>,
           calls |-> <<>>] :
        text \in KeywordTexts, max_keywords \in KeywordLimits}

\* Lines 412-421: the word overlap of the except branch
fallback_similarity(words1, words2) ==
    IF words1 \cup words2 = {} THEN 0
    ELSE Frac(Cardinality(words1 \cap words2), Cardinality(words1 \cup words2))

\* calculate_text_similarity(text1, text2) with both branches (lines
\* 333-421).  On two str arguments the one statement of the try body that can
\* raise is the print of line 408, on an output stream that cannot encode its
\* emoji; the except branch then answers.
similarity_outcomes(text1, text2) ==
    {[branch |-> "try", value |-> text_similarity(text1, text2)],
     [branch |-> "except",
      value |-> fallback_similarity(Range(SplitWS(Lower(text1))),
                                    Range(SplitWS(Lower(text2))))]}

InitLibrary ==
    /\ InitService
    /\ applied \in LibraryInputs

\* The call returns: what it returned is appended to the calls made
Returned(outcome) == applied' = [applied EXCEPT !.calls = Append(@, outcome)]

\* calculate_text_similarity(text1, text2)
CallTextSimilarity ==
    /\ applied.fn = "calculate_text_similarity"
    /\ Len(applied.calls) < MaxCalls
    /\ \E outcome \in similarity_outcomes(applied.args[1], applied.args[2]) :
          Returned(outcome)
    /\ UNCHANGED service_vars

\* analyze_thesis_alignment(article_text, thesis_points, thesis_keywords) on
\* the points and keywords parse_thesis gives for the thesis text
CallThesisAlignment ==
    /\ applied.fn = "analyze_thesis_alignment"
    /\ Len(applied.calls) < MaxCalls
    /\ Returned(analyze_thesis_alignment(applied.args[1],
                    parse_thesis(api_key, applied.args[2]).points,
                    parse_thesis(api_key, applied.args[2]).keywords))
    /\ UNCHANGED service_vars

\* embed_text(text)
CallEmbedText ==
    /\ applied.fn = "embed_text"
    /\ Len(applied.calls) < MaxCalls
    /\ \E outcome \in embed_text(api_key, applied.args[1]) : Returned(outcome)
    /\ UNCHANGED service_vars

\* extract_keywords_from_text(text, max_keywords)
CallExtractKeywords ==
    /\ applied.fn = "extract_keywords_from_text"
    /\ Len(applied.calls) < MaxCalls
    /\ Returned(extract_keywords_from_text(applied.args[1], applied.args[2]))
    /\ UNCHANGED service_vars

\* parse_thesis(thesis_text)
CallParseThesis ==
    /\ applied.fn = "parse_thesis"
    /\ Len(applied.calls) < MaxCalls
    /\ Returned(parse_thesis_body(api_key, applied.args[1]))
    /\ UNCHANGED service_vars

\* The offline embedding of a text by both of its implementations
CallHashEmbedding ==
    /\ applied.fn = "create_embedding"
    /\ ~api_key
    /\ Len(applied.calls) < MaxCalls
    /\ Returned([embed_text |-> hash_embed_text(applied.args[1]),
                 create_embedding |-> create_embedding(applied.args[1])])
    /\ UNCHANGED service_vars

NextLibrary ==
    \/ CallTextSimilarity
    \/ CallThesisAlignment
    \/ CallEmbedText
    \/ CallExtractKeywords
    \/ CallParseThesis
    \/ CallHashEmbedding

SpecLibrary == InitLibrary /\ [][NextLibrary]_vars
----------------------------------------------------------------------------
(* The collections of main.py that only the handlers of sources and blogs
   write: articles, blog_searches and starred_blogs *)

\* At most this many blog searches are recorded
MaxBlogs == 2
\* At most this many article URLs are discovered on one blog
MaxListing == 2
\* The readings of int(time.time())
Clock == 0..1

SOURCE_PREFIX == <<"s","o","u","r","c","e","_">>
\* The source ids of the requests: positions of stored articles, a position
\* past the end, a negative one, one that is no number, one without prefix
SourceIds ==
    {<<"s","o","u","r","c","e","_","0">>,
     <<"s","o","u","r","c","e","_","1">>,
     <<"s","o","u","r","c","e","_","2">>,
     <<"s","o","u","r","c","e","_","-","1">>,
     <<"s","o","u","r","c","e","_","x">>,
     <<"1">>}

DigitChars == <<"0","1","2","3","4","5","6","7","8","9">>
DigitValue(c) == (CHOOSE d \in 1..10 : DigitChars[d] = c) - 1

\* text.replace(old, "") from position i on
RECURSIVE RemoveFrom(_, _, _)
RemoveFrom(text, old, i) ==
    IF i > Len(text) THEN <<>>
    ELSE IF Slice(text, i, i + Len(old)) = old
         THEN RemoveFrom(text, old, i + Len(old))
         ELSE <<text[i]>> \o RemoveFrom(text, old, i + 1)

\* The value of the first n decimal digits
RECURSIVE DecimalValue(_, _)
DecimalValue(digits, n) ==
    IF n = 0 THEN 0 ELSE 10 * DecimalValue(digits, n - 1) + DigitValue(digits[n])

\* int(text) for a text of a sign and digits; anything else is a ValueError
int(text) ==
    LET stripped == Strip(text)
        signed == stripped # <<>> /\ stripped[1] \in {"+", "-"}
        digits == IF signed THEN Tail(stripped) ELSE stripped
    IN  IF digits = <<>> \/ \E i \in 1..Len(digits) : digits[i] \notin Digits
        THEN [raised |-> TRUE, value |-> 0]
        ELSE [raised |-> FALSE,
              value |-> IF signed /\ stripped[1] = "-"
                        THEN 0 - DecimalValue(digits, Len(digits))
                        ELSE DecimalValue(digits, Len(digits))]

\* int(source_id.replace("source_", "")) for the ids of the requests
\* (main.py line 729)
SourceIndex == [source_id \in SourceIds |-> int(RemoveFrom(source_id, SOURCE_PREFIX, 1))]

\* The answer of a handler that returns a message
Done(message) == [NoResponse EXCEPT !.kind = "ok", !.detail = message]

\* The flag of every article flipped
ToggledAll(list, source_index) ==
    AsTuple([i \in 1..Len(list) |-> [list[i] EXCEPT !.is_starred = ~@]])

\* article["is_starred"] = not article.get("is_starred", False) on
\* articles[source_index] (main.py lines 733-736)
Toggled(list, source_index) ==
    [list EXCEPT ![source_index + 1].is_starred = ~@]

\* star_source (main.py lines 724-754): the HTTPException(404) of line 731 is
\* no ValueError or IndexError, so the except Exception of line 752 answers it
\* as a 500
StarSourceRequest(source_id) ==
    /\ LoopFree
    /\    LET source_index == SourceIndex[source_id]
          IN  IF source_index.raised
              THEN /\ response' = ErrorResponse("error_404", "Invalid source ID")
                   /\ UNCHANGED <<articles, previous>>
              ELSE IF source_index.value < 0 \/ source_index.value >= Len(articles)
              THEN /\ response' = ErrorResponse("error_500",
                                       "Error starring source: 404: Source not found")
                   /\ UNCHANGED <<articles, previous>>
              ELSE /\ articles' = Toggled(articles, source_index.value)
                   /\ previous' = NoPrevious
                   /\ response' = Done(IF articles[source_index.value + 1].is_starred
                                       THEN "Source unstarred successfully"
                                       ELSE "Source starred successfully")
    /\ UNCHANGED <<api_key, thesis_vars, thesis_uploads, request_vars, committed, last_call,
                   applied, blog_vars>>

StarSource == \E source_id \in SourceIds : StarSourceRequest(source_id)

\* scraper.is_patent_site: a patent domain occurs in the host of the URL
patent_domains ==
    {<<"p","a","t","e","n","t","s",".","g","o","o","g","l","e",".","c","o","m">>,
     <<"p","a","t","e","n","t","s","c","o","p","e",".","w","i","p","o",".","i","n","t">>,
     <<"e","p","o",".","o","r","g">>,
     <<"u","s","p","t","o",".","g","o","v">>,
     <<"e","s","p","a","c","e","n","e","t",".","c","o","m">>}
is_patent_site(site) == \E domain \in patent_domains : Contains(domain, Lower(site.netloc))

\* The blogs of the requests, with the host urlparse finds in the URL
BlogSites ==
    {[url |-> "https://example.com/blog", netloc |-> <<"e","x","a","m","p","l","e",".","c","o","m">>],
     [url |-> "https://Patents.Google.com/?q=solar",
      netloc |-> <<"P","a","t","e","n","t","s",".","G","o","o","g","l","e",".","c","o","m">>]}

\* What discover_articles_from_blog may return: pages, by their number
Listings == UNION {[1..n -> 1..Len(Pages)] : n \in 0..MaxListing}

\* What the loop of upload_blog may come to for one article URL (main.py
\* lines 547-625): the page is too short, scraping or embedding raises, or the
\* article is built
ArticleOutcomes(key, page) ==
    {[status |-> "insufficient_content", emb |-> <<>>], [status |-> "error", emb |-> <<>>]}
        \cup {[status |-> IF outcome.raised THEN "error" ELSE "success",
               emb |-> IF outcome.raised THEN <<>> ELSE outcome.emb] :
                  outcome \in embed_text(key, page.summary)}

\* The articles the loop appends for the first n URLs of the listing
RECURSIVE Processed(_, _, _)
Processed(article_urls, outcomes, n) ==
    IF n = 0 THEN <<>>
    ELSE Processed(article_urls, outcomes, n - 1) \o
         (IF outcomes[n].status = "success"
          THEN <<Article(Pages[article_urls[n]].url, Pages[article_urls[n]].summary,
                         Pages[article_urls[n]].keywords, outcomes[n].emb)>>
          ELSE <<>>)

\* f"blog_{len(blog_searches)}_{int(time.time())}" (main.py line 629)
BlogId(n, now) == [n |-> n, time |-> now]

\* The clock does not run backwards between two blog searches
Now == {now \in Clock : \A i \in 1..Len(blog_searches) : blog_searches[i].id.time <= now}

\* upload_blog (main.py lines 511-657), from the resumption after
\* await discover_articles_from_blog: nothing is recorded for a patent site
\* with at most one URL nor for an empty listing; otherwise the articles that
\* could be processed are appended and the search is tracked
UploadBlog ==
    /\ LoopFree
    /\ Len(blog_searches) < MaxBlogs
    /\ \E site \in BlogSites : \E article_urls \in Listings :
          IF is_patent_site(site) /\ Len(article_urls) <= 1
          THEN /\ response' = Done("Patent site detected")
               /\ UNCHANGED <<articles, previous, blog_vars>>
          ELSE IF article_urls = <<>>
          THEN /\ response' = Done("No articles found on the blog/website")
               /\ UNCHANGED <<articles, previous, blog_vars>>
          ELSE \E outcomes \in [1..Len(article_urls) ->
                                   ArticleOutcomes(api_key, Pages[1])] : \E now \in Now :
                  LET added == Processed(article_urls, outcomes, Len(article_urls))
                  IN  /\ Len(articles) + Len(added) <= MaxArticles
                      /\ articles' = articles \o added
                      /\ previous' = IF added = <<>> THEN previous ELSE NoPrevious
                      /\ blog_searches' = Append(blog_searches,
                             [id |-> BlogId(Len(blog_searches), now), is_starred |-> FALSE])
                      /\ UNCHANGED starred_blogs
                      /\ response' = Done("Successfully processed")
    /\ UNCHANGED <<api_key, thesis_vars, thesis_uploads, request_vars, committed, last_call,
                   applied>>

\* The blog ids of the requests: those upload_blog can give, tracked or not
BlogIds == {BlogId(n, now) : n \in 0..MaxBlogs, now \in Clock}

\* The entry stays in starred_blogs
UnstarredKept(list, blog_id) == list

\* starred_blogs[:] = [blog for blog in starred_blogs if blog['id'] != blog_id]
\* (main.py line 790)
Unstarred(list, blog_id) == SelectSeq(list, LAMBDA blog : blog.id # blog_id)

\* Lines 768-786: the entry is appended unless one with the id is there, which
\* is made active instead
Starred(list, blog_search) ==
    LET existing == {i \in 1..Len(list) : list[i].id = blog_search.id}
    IN  IF existing = {}
        THEN Append(list, [id |-> blog_search.id, is_active |-> TRUE])
        ELSE [list EXCEPT ![SetMin(existing)].is_active = TRUE]

\* star_blog (main.py lines 756-801): the HTTPException(404) for an unknown id
\* is raised inside the try and answered as a 500
StarBlogRequest(blog_id) ==
    /\ LoopFree
    /\    LET found == {i \in 1..Len(blog_searches) : blog_searches[i].id = blog_id}
          IN  IF found = {}
              THEN /\ response' = ErrorResponse("error_500",
                                       "Error starring blog: 404: Blog search not found")
                   /\ UNCHANGED blog_vars
              ELSE /\ blog_searches' = [blog_searches EXCEPT ![SetMin(found)].is_starred = ~@]
                   /\ starred_blogs' = IF blog_searches[SetMin(found)].is_starred
                                       THEN Unstarred(starred_blogs, blog_id)
                                       ELSE Starred(starred_blogs, blog_searches[SetMin(found)])
                   /\ response' = Done(IF blog_searches[SetMin(found)].is_starred
                                       THEN "Blog unstarred successfully"
                                       ELSE "Blog starred successfully")
    /\ UNCHANGED <<api_key, thesis_vars, articles, thesis_uploads, request_vars,
                   committed, last_call, previous, applied>>

StarBlog == \E blog_id \in BlogIds : StarBlogRequest(blog_id)

\* monitor_starred_blogs (main.py lines 820-906): discover_articles_from_blog
\* is imported inside upload_blog only, so line 837 raises NameError for every
\* active blog, the except of line 887 records the error, and no article is
\* added
MonitorStarredBlogs ==
    /\ LoopFree
    /\ response' = Done("Monitoring completed. Found 0 new articles")
    /\ UNCHANGED <<api_key, thesis_vars, articles, thesis_uploads, request_vars,
                   committed, last_call, previous, applied, blog_vars>>

\* The handlers that write or read the articles
NextSources ==
    \/ AddThesisText
    \/ GetMatches
    \/ AddSource
    \/ PopulateTestData
    \/ StarSource
    \/ UploadBlog
    \/ Deliver

SpecSources == Init /\ [][NextSources]_vars

\* The handlers of the blog searches
NextBlogs ==
    \/ UploadBlog
    \/ StarBlog
    \/ MonitorStarredBlogs
    \/ Deliver

SpecBlogs == Init /\ [][NextBlogs]_vars

----------------------------------------------------------------------------
(* Claims about the thesis state and the ranking (specification Spec) *)

\* A response that carries a ranking
Ranked == response.kind = "matches"

\* The positions of the ranking
Results == 1..Len(response.matches)

\* The default result of lines 58-75
IsDefault(match) == match.match_reason = <<"No thesis available for comparison">>

\* detailed_scores.get(name, 0)
SubScore(match, name) ==
    IF name \in DOMAIN match.detailed_scores THEN match.detailed_scores[name] ELSE 0

\* C1: in every reachable state the vector index holds as many vectors as
\* there are current thesis points.
C1_IndexSizeIsPointCount == Len(index) = Len(thesis_points)

C4_DefaultExactlyWithoutPoints ==
    Ranked =>
        \A j \in Results :
            (IsDefault(response.matches[j]) /\ response.matches[j].relevance_score = ONE)
                <=> thesis_points = <<>>

\* C5: the list find_relevant_articles returns is sorted non-increasing by
\* relevance_score.
C5_SortedByRelevance ==
    Ranked =>
        \A j \in Results : \A k \in Results :
            j < k => response.matches[j].relevance_score >= response.matches[k].relevance_score

\* Two articles were ranked and the second of the input came out first
C5_Witness ==
    /\ Ranked
    /\ Len(response.matches) = 2
    /\ response.matches[1].url = response.input[2].url
    /\ response.matches[1].relevance_score > response.matches[2].relevance_score

\* C6: an article that makes a scoring step raise does not abort the batch:
\* every call returns one result for every input article and raises nothing.
C6_OneResultPerArticle ==
    response.kind \in {"matches", "raised"} =>
        /\ response.kind = "matches"
        /\ Len(response.matches) = Len(response.input)

\* C7: the vector strategy contributes exactly 0.4 times the reported
\* vector_similarity to relevance_score.
C7_VectorContributesOnce ==
    Ranked =>
        \A j \in Results :
            ~IsDefault(response.matches[j]) =>
                SumScores(ScoresOf(response.matches[j].match_scores, "vector"))
                    = Weighted(SubScore(response.matches[j], "vector_similarity"), 4)

\* C8: the text strategy contributes exactly 0.2 times the reported
\* text_similarity to relevance_score.
C8_TextContributesOnce ==
    Ranked =>
        \A j \in Results :
            ~IsDefault(response.matches[j]) =>
                SumScores(ScoresOf(response.matches[j].match_scores, "text"))
                    = Weighted(SubScore(response.matches[j], "text_similarity"), 2)

\* C9: every relevance_score is at least 0 and at most 2.0.
C9_RelevanceWithinTwo ==
    Ranked =>
        \A j \in Results :
            /\ response.matches[j].relevance_score >= 0
            /\ response.matches[j].relevance_score <= 2 * ONE

\* The five sub-scores every detailed_scores map is to carry
SubScoreNames ==
    {"vector_similarity", "keyword_overlap", "text_similarity", "content_quality",
     "thesis_alignment"}

\* C10: every result, with or without a thesis, carries the five named
\* sub-scores, each in [0, 1].
C10_FiveSubScores ==
    Ranked =>
        \A j \in Results :
            /\ SubScoreNames \subseteq DOMAIN response.matches[j].detailed_scores
            /\ \A name \in SubScoreNames \cap DOMAIN response.matches[j].detailed_scores :
                  /\ response.matches[j].detailed_scores[name] >= 0
                  /\ response.matches[j].detailed_scores[name] <= ONE

----------------------------------------------------------------------------
(* Claims about the order and the content of the results *)

\* The relevance_score the ranking gave the article of this URL
ScoreOfUrl(url) ==
    CHOOSE score \in {response.matches[j].relevance_score : j \in Results} :
        \E j \in Results : /\ response.matches[j].url = url
                           /\ response.matches[j].relevance_score = score

\* The URLs of the results of a given score, in output order
OutputUrlsOfScore(score) ==
    SelectSeq(AsTuple([j \in Results |-> response.matches[j]]),
              LAMBDA match : match.relevance_score = score)

\* The input articles whose result has a given score, in input order
InputOfScore(score) ==
    SelectSeq(response.input, LAMBDA article : ScoreOfUrl(article.url) = score)

\* C11: articles of equal relevance_score appear in the output in the same
\* relative order as in the input list.
C11_TiesKeepInputOrder ==
    Ranked =>
        \A j \in Results :
            AsTuple([k \in 1..Len(OutputUrlsOfScore(response.matches[j].relevance_score)) |->
                        OutputUrlsOfScore(response.matches[j].relevance_score)[k].url])
            = AsTuple([k \in 1..Len(InputOfScore(response.matches[j].relevance_score)) |->
                        InputOfScore(response.matches[j].relevance_score)[k].url])

\* Two different articles were ranked with the same score
C11_Witness ==
    /\ Ranked
    /\ Len(response.matches) = 2
    /\ response.matches[1].url # response.matches[2].url
    /\ response.matches[1].relevance_score = response.matches[2].relevance_score


\* The input articles the result at position j was computed from
InputsOf(j) ==
    {k \in 1..Len(response.input) : response.input[k].url = response.matches[j].url}

\* The matched points the alignment analyzer reports for an input article;
\* none when line 146 does not call it
AnalyzerMatched(article) ==
    IF thesis_points # <<>> /\ thesis_keywords # <<>>
    THEN analyze_thesis_alignment(ArticleText(article), thesis_points,
                                  thesis_keywords).matched_points
    ELSE <<>>

\* The thesis points of the neighbours the vector search returns for an input
\* article; none when the search raises
NeighbourPoints(article) ==
    IF VectorStrategy(article, CurrentThesis).raised THEN <<>>
    ELSE VectorStrategy(article, CurrentThesis).points

Answered == response.kind \in {"matches", "raised"}

\* The call answered now repeats the last delivered one: the same list, and
\* neither the thesis state nor the stored articles changed in between
Repeated ==
    /\ Answered
    /\ previous.made
    /\ response.input = previous.input

----------------------------------------------------------------------------
(* Claims about the library functions (specification SpecLibrary) *)

\* The results of the calls of fn made so far
CallsOf(fn) == IF applied.fn = fn THEN Range(applied.calls) ELSE {}

\* The thesis points and keywords analyze_thesis_alignment was called with
AppliedThesis == parse_thesis(api_key, applied.args[2])

\* Equal up to the truncation of the divisions (some 1e-7)
Near(x, y) == x - y <= 4 /\ y - x <= 4

\* What the thesis points added to the alignment score before it was clamped:
\* the score less the keyword, content and domain parts
PointComponent(result) ==
    result.raw_score - Weighted(result.detailed_scores.keyword_score, 4)
                     - Weighted(result.detailed_scores.content_similarity, 3)
                     - result.detailed_scores.domain_score

\* C14: the thesis points add 0.3 times the mean of the similarities of all
\* thesis points to the alignment score, matched or not; a point is matched
\* exactly when its similarity exceeds 0.3.
C14_PointsAddWeightedMean ==
    \A result \in CallsOf("analyze_thesis_alignment") :
        /\ Near(PointComponent(result), Weighted(result.detailed_scores.point_similarity, 3))
        /\ result.matched_points
             = SelectSeq(AppliedThesis.points,
                         LAMBDA point : calculate_text_similarity(point, applied.args[1])
                                            > Frac(3, 10))

\* C15: the domain bonus added to the alignment score is at most 0.1 in
\* total, for every article text.
C15_DomainBonusWithinBudget ==
    \A result \in CallsOf("analyze_thesis_alignment") :
        result.detailed_scores.domain_score <= Frac(1, 10)

\* C16: calculate_text_similarity returns a value in [0.0, 1.0] for all
\* texts, from the try body and from the except branch alike.
C16_SimilarityWithinUnit ==
    \A result \in CallsOf("calculate_text_similarity") :
        /\ result.value >= 0
        /\ result.value <= ONE

\* Two equal texts of four words were compared by the try body, which
\* returned 1.0, and by the except branch
C16_Witness ==
    /\ applied.fn = "calculate_text_similarity"
    /\ applied.args = <<TEXT_FOX, TEXT_FOX>>
    /\ Len(applied.calls) = 2
    /\ applied.calls[1] = [branch |-> "try", value |-> ONE]
    /\ applied.calls[2].branch = "except"

\* C17: calculate_text_similarity(a, a) is 1.0 for every text a that is not
\* empty once normalised, texts of fewer than three words and texts without
\* a word of more than three characters included.
C17_SelfSimilarityIsOne ==
    \A result \in CallsOf("calculate_text_similarity") :
        (/\ result.branch = "try"
         /\ applied.args[1] = applied.args[2]
         /\ clean_text(applied.args[1]) # <<>>)
            => result.value = ONE

\* C18: calculate_text_similarity(a, b) = calculate_text_similarity(b, a) for
\* all texts a and b.
C18_SimilarityIsSymmetric ==
    \A result \in CallsOf("calculate_text_similarity") :
        result.branch = "try"
            => result.value = text_similarity(applied.args[2], applied.args[1])

\* C19: embed_text returns a vector of exactly 1536 numbers and never raises,
\* for every text, with an API key (the remote call failing or not) and
\* without one.
C19_EmbeddingNeverRaises ==
    \A outcome \in CallsOf("embed_text") :
        /\ ~outcome.raised
        /\ outcome.emb.dim = DIM

Occurrences(text, word) ==
    Cardinality({i \in 1..Len(SplitWS(Lower(text))) : SplitWS(Lower(text))[i] = word})

\* Where a word first occurs among the lowercased words of the text
FirstOccurrence(text, word) ==
    SetMin({i \in 1..Len(SplitWS(Lower(text))) : SplitWS(Lower(text))[i] = word})

\* The keywords are lowercase, pairwise distinct, and ordered by decreasing
\* frequency, words of equal frequency by first occurrence
WellOrderedKeywords(text, keywords) ==
    /\ \A i \in 1..Len(keywords) : Lower(keywords[i]) = keywords[i]
    /\ \A i \in 1..Len(keywords) : \A j \in 1..Len(keywords) :
          i < j =>
            /\ keywords[i] # keywords[j]
            /\ \/ Occurrences(text, keywords[i]) > Occurrences(text, keywords[j])
               \/ /\ Occurrences(text, keywords[i]) = Occurrences(text, keywords[j])
                  /\ FirstOccurrence(text, keywords[i]) < FirstOccurrence(text, keywords[j])

\* C21: extract_keywords_from_text(text, k) returns at most k keywords for
\* every integer k (none when k is 0 or negative); they are lowercase,
\* pairwise distinct, ordered by frequency descending with ties in
\* first-occurrence order.
C21_AtMostKKeywords ==
    \A keywords \in CallsOf("extract_keywords_from_text") :
        /\ Len(keywords) <= Max2(0, applied.args[2])
        /\ WellOrderedKeywords(applied.args[1], keywords)

\* The keywords the example thesis is to yield
ExampleKeywords ==
    {<<"s","o","l","a","r">>,
     <<"p","a","n","e","l">>,
     <<"e","f","f","i","c","i","e","n","c","y">>,
     <<"b","a","t","t","e","r","y">>,
     <<"s","t","o","r","a","g","e">>,
     <<"c","r","i","t","i","c","a","l">>,
     <<"g","r","i","d">>,
     <<"i","n","t","e","g","r","a","t","i","o","n">>}

\* C22: for the three-line example thesis parse_thesis yields 3 points and
\* keywords that include solar, panel, efficiency, battery, storage,
\* critical, grid and integration: a word directly followed by sentence
\* punctuation is still eligible as a keyword.
C22_ExampleThesisKeywords ==
    \A parsed \in CallsOf("parse_thesis") :
        applied.args[1] = TH_SPEC =>
            /\ Len(parsed.points) = 3
            /\ ExampleKeywords \subseteq Range(parsed.keywords)

\* A returned point is longer than 10 characters once trimmed and holds no
\* section header term
MeaningfulPoint(point) ==
    /\ Len(Strip(point)) > 10
    /\ \A k \in 1..Len(skip_patterns) : ~Contains(skip_patterns[k], Lower(point))

\* C23: parse_thesis returns the same points with and without an API key;
\* every returned point has trimmed length > 10 and none comes from a line
\* that holds a section header term.
C23_SamePointsInBothVariants ==
    \A parsed \in CallsOf("parse_thesis") :
        /\ parsed.points = parse_thesis_body(~api_key, applied.args[1]).points
        /\ \A i \in 1..Len(parsed.points) : MeaningfulPoint(parsed.points[i])

\* C29: in the offline embedding every component's 4-character window fits in
\* the 32-character digest (the 0.0 branch is never taken), every component
\* is a 16-bit integer divided by 100000, component i equals component
\* i mod 8, there are 1536 of them, and embed_text and
\* FallbackMatcher.create_embedding return identical vectors.
C29_HashWindowsFit ==
    \A both \in CallsOf("create_embedding") :
        ~both.embed_text.raised =>
            /\ Len(both.embed_text.emb) = DIM
            /\ \A d \in 1..DIM :
                  /\ both.embed_text.emb[d].fits
                  /\ both.embed_text.emb[d].value >= 0
                  /\ both.embed_text.emb[d].value <= 65535
                  /\ both.embed_text.emb[d] = both.embed_text.emb[((d - 1) % 8) + 1]
            /\ both.create_embedding = both.embed_text

\* A text of four words was embedded by both implementations, and not all of
\* the components are equal
C29_Witness ==
    /\ applied.fn = "create_embedding"
    /\ applied.args = <<TEXT_FOX>>
    /\ applied.calls # <<>>
    /\ ~applied.calls[1].embed_text.raised
    /\ applied.calls[1].embed_text.emb[1] # applied.calls[1].embed_text.emb[2]
    /\ applied.calls[1].create_embedding.emb[DIM].fits
----------------------------------------------------------------------------
(* Claims about the article collection and the blog lists *)

\* C24: no two articles of the collection have the same source URL.
C24_ArticleUrlsUnique ==
    \A i \in 1..Len(articles) : \A j \in 1..Len(articles) :
        i # j => articles[i].url # articles[j].url

\* C25: every article of the collection has an embedding of 1536 components
\* computed from its summary.
C25_ArticleEmbeddingFromSummary ==
    \A i \in 1..Len(articles) :
        /\ articles[i].embedding.dim = DIM
        /\ \E outcome \in embed_text(api_key, articles[i].summary) :
              ~outcome.raised /\ outcome.emb = articles[i].embedding

\* The labels the index search of find_relevant_articles returns for an
\* article (vector_store.py line 88)
NeighbourLabels(article) ==
    Range(IndexSearch(index, article.embedding, Min2(3, Len(thesis_embeddings))).I)

\* C28: the index and thesis_embeddings have the same length and hold the
\* same vectors position by position, and every label the index search
\* returns to find_relevant_articles lies in [0, len(thesis_embeddings)): the
\* label -1 is never used to look up a point.
C28_LabelsMapToPoints ==
    /\ Len(index) = Len(thesis_embeddings)
    /\ \A p \in 1..Len(index) :
          p <= Len(thesis_embeddings) => index[p] = thesis_embeddings[p].emb
    /\ Ranked =>
          \A k \in 1..Len(response.input) :
              \A label \in NeighbourLabels(response.input[k]) :
                  /\ label >= 0
                  /\ label < Len(thesis_embeddings)

\* An article was ranked against a thesis of three points with different
\* vectors, and the search returned three labels
C28_Witness ==
    /\ Ranked
    /\ Len(thesis_embeddings) = 3
    /\ thesis_embeddings[1].emb # thesis_embeddings[2].emb
    /\ \E k \in 1..Len(response.input) :
          Cardinality(NeighbourLabels(response.input[k])) = 3

\* The answer reports an empty thesis text
EmptyTextReported == response.detail = EmptyThesisText.detail

\* C27: add_thesis_text with a text that is empty or only whitespace is
\* answered with the 400 error "Thesis text cannot be empty" and leaves
\* thesis_points, thesis_keywords, the index and thesis_uploads unchanged.
C27_EmptyTextRejectedWith400 ==
    /\ [](EmptyTextReported => response.kind = "error_400")
    /\ [][EmptyTextReported' =>
            UNCHANGED <<thesis_points, thesis_keywords, index, thesis_uploads>>]_vars

\* The article is what it was, but for its flag
SameButStar(article, before) == [article EXCEPT !.is_starred = before.is_starred] = before

\* The position of the article a source id addresses, 0 when it addresses none
Addressed(source_id) ==
    LET source_index == SourceIndex[source_id]
    IN  IF ~source_index.raised /\ source_index.value >= 0
             /\ source_index.value < Len(articles)
        THEN source_index.value + 1
        ELSE 0

\* C26: an article in the collection is never removed and none of its fields
\* changes, except that star_source toggles is_starred of the one addressed
\* article: the collection only grows, existing articles keep their position,
\* and thesis submission and ranking leave the collection untouched.
C26_ArticlesOnlyGrow ==
    [][/\ Len(articles') >= Len(articles)
       /\ \A i \in 1..Len(articles) : SameButStar(articles'[i], articles[i])
       /\ (\E i \in 1..Len(articles) : articles'[i] # articles[i]) => StarSource
       /\ \A source_id \in SourceIds :
             StarSourceRequest(source_id) =>
                /\ Len(articles') = Len(articles)
                /\ \A i \in 1..Len(articles) :
                      articles'[i].is_starred =
                         IF i = Addressed(source_id)
                         THEN ~articles[i].is_starred
                         ELSE articles[i].is_starred
       /\ articles' # articles => ~(AddThesisText \/ GetMatches \/ Deliver)]_vars

\* Two articles are stored, the first one starred and the second not, a thesis
\* is stored, and a ranking of the two has just been computed
C26_Witness ==
    /\ Len(articles) = 2
    /\ articles[1].is_starred
    /\ ~articles[2].is_starred
    /\ thesis_points # <<>>
    /\ response.kind = "matches"
    /\ Len(response.matches) = 2

StarredIds == {starred_blogs[i].id : i \in 1..Len(starred_blogs)}
TrackedIds == {blog_searches[i].id : i \in 1..Len(blog_searches)}

\* C30: after any sequence of upload_blog and star_blog calls, starred_blogs
\* holds an entry with a blog id exactly when the blog_searches record with
\* that id has is_starred == True, starred_blogs never holds two entries with
\* the same id, and star_blog on an unknown id changes neither list.
C30_StarredBlogsMirrorFlags ==
    /\ [](/\ \A blog_id \in BlogIds :
                blog_id \in StarredIds <=>
                   \E i \in 1..Len(blog_searches) :
                       blog_searches[i].id = blog_id /\ blog_searches[i].is_starred
          /\ StarredIds \subseteq BlogIds
          /\ \A i, j \in 1..Len(starred_blogs) :
                starred_blogs[i].id = starred_blogs[j].id => i = j)
    /\ [][\A blog_id \in BlogIds \ TrackedIds :
             StarBlogRequest(blog_id) => UNCHANGED blog_vars]_vars

\* Two blogs are tracked, the first is starred and the second is not, and a
\* request to star an unknown id has just been answered
C30_Witness ==
    /\ Len(blog_searches) = 2
    /\ blog_searches[1].is_starred
    /\ ~blog_searches[2].is_starred
    /\ Len(starred_blogs) = 1
    /\ starred_blogs[1].id = blog_searches[1].id
    /\ response.detail = "Error starring blog: 404: Blog search not found"
=============================================================================
